---- MODULE Spec2Model ----
(***************************************************************************)
(* Book-library service: the book handlers (cache-aside reads, write-       *)
(* invalidate writes) over the relational store and the Redis cache, and    *)
(* the auth service (register / authenticate).                              *)
(*                                                                          *)
(* Every request runs on its own goroutine; each database statement and     *)
(* each cache command is one atomic step, and the steps of concurrent       *)
(* requests interleave freely.                                              *)
(***************************************************************************)
EXTENDS Integers, Sequences, FiniteSets, TLC

\* ------------------------------------------------------------------ bounds
\* Largest number of book rows the store ever holds (ids 1..MaxBooks).
MaxBooks == 2
\* Number of requests that can be in flight at the same time.
MaxInFlight == 2
\* Largest number of book requests served in one run.
MaxRequests == 4
\* Largest number of user rows.
MaxUsers == 2

Slots == 1..MaxInFlight
BookIds == 1..MaxBooks

Nil == "nil"

\* ------------------------------------------------------------ book records
\* The columns of Book a request body can carry (title, author, year, genre,
\* isbn); the zero value of a column is "" for strings and 0 for year.
Fields == {"title", "author", "year", "genre", "isbn"}

Zero(f) == IF f = "year" THEN 0 ELSE ""

\* Request bodies used for POST /books and PUT /books/:id.  The same Book
\* struct is parsed for both, so one set serves as drafts and as partials.
BookInputs ==
  { [title |-> "1984", author |-> "Orwell", year |-> 1949, genre |-> "", isbn |-> ""],
    [title |-> "Brave New World", author |-> "Huxley", year |-> 1932,
     genre |-> "Fiction", isbn |-> "i1"],
    [title |-> "Updated", author |-> "", year |-> 0, genre |-> "Non-Fiction", isbn |-> ""] }

NoBody == [title |-> "", author |-> "", year |-> 0, genre |-> "", isbn |-> ""]

\* Variant of NewRow: the INSERT leaves out the genre column.
NewRow_DropsGenre(b) ==
  [title |-> b.title, author |-> b.author, year |-> b.year, genre |-> "",
   isbn |-> b.isbn, deleted |-> FALSE]

\* A row of table books: the columns plus the soft-delete marker.
NewRow(b) ==
  [title |-> b.title, author |-> b.author, year |-> b.year, genre |-> b.genre,
   isbn |-> b.isbn, deleted |-> FALSE]

\* json.Marshal of a Book: DeletedAt is tagged json:"-" and is dropped.
ToJSON(id, row) ==
  [id |-> id, title |-> row.title, author |-> row.author, year |-> row.year,
   genre |-> row.genre, isbn |-> row.isbn]

\* json.Unmarshal into a Book: DeletedAt keeps its zero value.
FromJSON(j) ==
  [id |-> j.id, title |-> j.title, author |-> j.author, year |-> j.year,
   genre |-> j.genre, isbn |-> j.isbn, deleted |-> FALSE]

\* The characters of the strings that occur as titles, authors and search
\* terms.
Chars(str) ==
  CASE str = "" -> <<>>
    [] str = "1984" -> <<"1", "9", "8", "4">>
    [] str = "Orwell" -> <<"O", "r", "w", "e", "l", "l">>
    [] str = "Brave New World" ->
         <<"B", "r", "a", "v", "e", " ", "N", "e", "w", " ", "W", "o", "r", "l", "d">>
    [] str = "Huxley" -> <<"H", "u", "x", "l", "e", "y">>
    [] str = "Updated" -> <<"U", "p", "d", "a", "t", "e", "d">>
    [] str = "hux" -> <<"h", "u", "x">>
    [] str = "_" -> <<"_">>

\* Case folding of ILIKE, on the upper-case letters above.
Lower(ch) ==
  CASE ch = "O" -> "o" [] ch = "B" -> "b" [] ch = "N" -> "n" [] ch = "W" -> "w"
    [] ch = "H" -> "h" [] ch = "U" -> "u" [] OTHER -> ch

\* The LIKE pattern language: % matches any run of characters, _ any one
\* character, a backslash makes the next character literal; ILIKE folds case.
RECURSIVE LikeMatch(_, _)
LikeMatch(pattern, str) ==
  IF pattern = <<>> THEN str = <<>>
  ELSE IF Head(pattern) = "%"
    THEN LikeMatch(Tail(pattern), str)
         \/ (str # <<>> /\ LikeMatch(pattern, Tail(str)))
  ELSE IF Head(pattern) = "_"
    THEN str # <<>> /\ LikeMatch(Tail(pattern), Tail(str))
  ELSE IF Head(pattern) = "\\" /\ Len(pattern) > 1
    THEN /\ str # <<>>
         /\ Lower(pattern[2]) = Lower(Head(str))
         /\ LikeMatch(Tail(Tail(pattern)), Tail(str))
  ELSE /\ str # <<>>
       /\ Lower(Head(pattern)) = Lower(Head(str))
       /\ LikeMatch(Tail(pattern), Tail(str))

\* column ILIKE ? with the argument "%"+query+"%": the query is pasted into
\* the pattern as it is.
ILike(column, query) ==
  LikeMatch(<<"%">> \o Chars(query) \o <<"%">>, Chars(column))

\* Values of the search query parameter; "" is a request without one.
SearchTerms == {"", "hux"}
\* Every value of the search parameter a request is made with: those above,
\* and one that holds a pattern character.
SearchQueries == SearchTerms \cup {"_"}
TermIndex(term) ==
  IF term = "" THEN 0 ELSE IF term = "hux" THEN 1 ELSE 2

\* --------------------------------------------------------------- variables
VARIABLES
  store,        \* table books: sequence of rows, the row at index i has id i
  cache,        \* Redis: key -> {} when the key is absent, {value} otherwise
  pc,           \* per request slot: the handler's position
  req,          \* per request slot: the request (op, id, body)
  loc,          \* per request slot: the handler's local variable
  resp,         \* per request slot: the response (status, body)
  hist,         \* history: what has completed so far (for the claims)
  users,        \* table users: sequence of rows
  apc,          \* per auth slot: position of RegisterUser
  areq,         \* per auth slot: the register request
  aresp,        \* per auth slot: the error RegisterUser returned, HTTP status
  loginLog,     \* per kind of Login request, its latest outcome ({} if none)
  faulted,      \* per request slot: the cache calls of the request that failed
  gate,         \* the latest request routed through the middleware groups
  srv,          \* the process: phase of main, state of the cache connection
  ttl,          \* Redis clock, expiry of each key, age of what each key holds
  logs,         \* the entries the logger has written, as a set
  metrics,      \* package metrics: the cache counters and the calls in progress
  calc          \* the latest raw input handed to a parser or a function
                \* called on its own: function, argument, result

bookVars == <<store, cache, pc, req, loc, resp, hist>>
authVars == <<users, apc, areq, aresp, loginLog>>
envVars == <<ttl, logs, metrics, calc>>
sysVars == <<faulted, gate, srv, envVars>>
vars ==
  <<store, cache, pc, req, loc, resp, hist, users, apc, areq, aresp, loginLog,
    faulted, gate, srv, ttl, logs, metrics, calc>>

\* Cache keys: "books:all", books:search:<term> and book:<id>, as pairs
\* <<prefix, number>>.
KeyAll == <<"books:all", 0>>
KeySearch(term) == <<"books:search", TermIndex(term)>>
KeyBook(id) == <<"book", id>>
CacheKeys ==
  {KeyAll} \cup {KeySearch(t) : t \in SearchQueries \ {""}} \cup {KeyBook(i) : i \in BookIds}

\* cacheKey of GetBooks
ListKey(search) == IF search # "" THEN KeySearch(search) ELSE KeyAll

NoReq ==
  [op |-> "none", id |-> 0, search |-> "", body |-> NoBody,
   seenCreated |-> {}, seenDeleted |-> {}]
NoResp == [status |-> 0, body |-> Nil]

\* ------------------------------------------------------------------ store
Live(s, id) == id \in 1..Len(s) /\ ~s[id].deleted

\* GetAllBooks: SELECT * FROM books WHERE deleted_at IS NULL.  The statement
\* has no ORDER BY, so the result is kept as the set of its rows.
GetAllBooks(s) == {ToJSON(i, s[i]) : i \in {j \in 1..Len(s) : ~s[j].deleted}}

\* Variant of GetBookByID: the query has no deleted_at IS NULL condition.
GetBookByID_IgnoresSoftDelete(s, id) ==
  IF id \in 1..Len(s) THEN {ToJSON(id, s[id])} ELSE {}

\* SearchBooks: SELECT * FROM books WHERE (title ILIKE ? OR author ILIKE ?)
\* AND deleted_at IS NULL.
SearchBooks(s, query) ==
  {ToJSON(i, s[i]) : i \in {j \in 1..Len(s) :
      ~s[j].deleted /\ (ILike(s[j].title, query) \/ ILike(s[j].author, query))}}

\* GetBookByID: SELECT ... WHERE id = ? AND deleted_at IS NULL LIMIT 1;
\* ErrRecordNotFound when no row matches.
\* The result is {} for not-found and {book} otherwise.
GetBookByID(s, id) == IF Live(s, id) THEN {ToJSON(id, s[id])} ELSE {}

\* The unique index on books.isbn covers every row, soft-deleted ones too,
\* and the empty string is a value like any other.
IsbnTaken(s, isbn, except) ==
  \E i \in 1..Len(s) : i # except /\ s[i].isbn = isbn

\* CreateBook: INSERT; fails on a duplicate isbn.
CanCreate(s, b) == ~IsbnTaken(s, b.isbn, 0)
CreateBook(s, b) == Append(s, NewRow(b))

\* Variant of ApplyUpdates: every field of the struct is written, zero or not.
ApplyUpdates_OverwritesAll(row, p) ==
  [title |-> p.title, author |-> p.author, year |-> p.year, genre |-> p.genre,
   isbn |-> p.isbn, deleted |-> row.deleted]

\* Updates(updatedBook): only the non-zero fields of the struct are written.
ApplyUpdates(row, p) ==
  [title |-> IF p.title # "" THEN p.title ELSE row.title,
   author |-> IF p.author # "" THEN p.author ELSE row.author,
   year |-> IF p.year # 0 THEN p.year ELSE row.year,
   genre |-> IF p.genre # "" THEN p.genre ELSE row.genre,
   isbn |-> IF p.isbn # "" THEN p.isbn ELSE row.isbn,
   deleted |-> row.deleted]

\* The UPDATE fails when it would give the row an isbn another row has.
CanUpdate(s, id, p) == ~(Live(s, id) /\ p.isbn # "" /\ IsbnTaken(s, p.isbn, id))

\* UPDATE books SET ... WHERE id = ? AND deleted_at IS NULL.
UpdateRow(s, id, p) ==
  IF Live(s, id) THEN [s EXCEPT ![id] = ApplyUpdates(s[id], p)] ELSE s

\* DeleteBook: UPDATE books SET deleted_at = now WHERE id = ? AND deleted_at
\* IS NULL.  Matching no row is not an error.
DeleteBook(s, id) ==
  IF Live(s, id) THEN [s EXCEPT ![id].deleted = TRUE] ELSE s

\* ------------------------------------------------------------------ cache
\* Variant of CacheHit: every Get reports redis.Nil.
CacheHit_Never(c, k) == FALSE
\* RedisCache.Get: nil error exactly when the key holds a value.
CacheHit(c, k) == c[k] # {}
CacheValue(c, k) == CHOOSE v \in c[k] : TRUE
\* RedisCache.Set stores the JSON of the value.
CacheSet(c, k, v) == [c EXCEPT ![k] = {v}]
\* Variant of CacheDelete: FLUSHDB, every key is removed.
CacheDelete_FlushesAll(c, k) == [x \in DOMAIN c |-> {}]
\* RedisCache.Delete removes the key.
CacheDelete(c, k) == [c EXCEPT ![k] = {}]

\* The request of a slot is dropped when its response is sent.
NoRegister == [username |-> "", password |-> "", email |-> ""]

\* The kinds of Login request: no row with the username, a row and another
\* password, a row and its password.
LoginKinds == {"no_user", "wrong_password", "ok"}

\* What a request presents in its Authorization header.  A bearer token has
\* a signature that verifies under the secret or not, an exp claim in the
\* past or not, and the other claims GenerateJWT writes; claims is the
\* MapClaims of the token, which may lack a role.
NoHeader ==
  [header |-> "none", signed |-> FALSE, expired |-> FALSE, claims |-> [sub |-> 0]]
Malformed ==
  [header |-> "malformed", signed |-> FALSE, expired |-> FALSE, claims |-> [sub |-> 0]]
Bearer(signed, expired, claims) ==
  [header |-> "bearer", signed |-> signed, expired |-> expired, claims |-> claims]
Tokens ==
  { NoHeader, Malformed,
    Bearer(FALSE, FALSE, [sub |-> 1, role |-> "admin"]),
    Bearer(TRUE, TRUE, [sub |-> 1, role |-> "admin"]),
    Bearer(TRUE, FALSE, [sub |-> 1, role |-> "admin"]),
    Bearer(TRUE, FALSE, [sub |-> 2, role |-> "user"]),
    Bearer(TRUE, FALSE, [sub |-> 2]) }

\* No request has been routed through a middleware group yet.
NoGate ==
  [route |-> "none", token |-> NoHeader, status |-> 0, ran |-> "none",
   body |-> Nil]

\* main before the signal: the server listens and the Redis client is open.
Serving == [phase |-> "serving", cacheOpen |-> TRUE]

\* The Redis clock at 0 with no key set; nothing logged; the counters of
\* package metrics at 0 and no call in progress; no function called.
NoCall == [fn |-> "none", arg |-> Nil, out |-> {}]
\* A response that did not come from the cache.
NotServed == [cached |-> FALSE, sinceSet |-> 0, dataAge |-> 0, delay |-> 0]
\* The clock in minutes; for each key the minute it was set, the minute it
\* expires and the minute its value was read from the table; for each
\* request the minute of its table read and the age of what it was served.
NoTTL ==
  [now |-> 0,
   setAt |-> [k \in CacheKeys |-> 0],
   expiry |-> [k \in CacheKeys |-> 0],
   dataAt |-> [k \in CacheKeys |-> 0],
   readAt |-> [r \in Slots |-> 0],
   served |-> [r \in Slots |-> NotServed]]
\* cacheHits and cacheMisses, the last value given to the hit-ratio gauge as
\* the pair <<hits, total>>, and for each handler its place in
\* RecordCacheOperation with the values it holds in registers.
NoMetrics ==
  [cacheHits |-> 0, cacheMisses |-> 0, ratio |-> <<0, 0>>,
   hitCalls |-> 0, missCalls |-> 0,
   at |-> [r \in Slots |-> "idle"],
   status |-> [r \in Slots |-> "none"],
   tmp |-> [r \in Slots |-> 0],
   hits |-> [r \in Slots |-> 0]]
InitEnv ==
  /\ ttl = NoTTL
  /\ logs = {}
  /\ metrics = NoMetrics
  /\ calc = NoCall

\* ------------------------------------------------------------------- init
InitHist ==
  [started |-> 0, createDone |-> {}, deleteDone |-> {}, written |-> {},
   createdAs |-> [i \in BookIds |-> NoBody]]

Init ==
  /\ store = <<>>
  /\ cache = [k \in CacheKeys |-> {}]
  /\ pc = [r \in Slots |-> "idle"]
  /\ req = [r \in Slots |-> NoReq]
  /\ loc = [r \in Slots |-> Nil]
  /\ resp = [r \in Slots |-> NoResp]
  /\ hist = InitHist
  /\ users = <<>>
  /\ apc = [r \in Slots |-> "idle"]
  /\ areq = [r \in Slots |-> NoRegister]
  /\ aresp = [r \in Slots |-> [err |-> Nil, status |-> 0]]
  /\ loginLog = [k \in LoginKinds |-> {}]
  /\ faulted = [r \in Slots |-> {}]
  /\ gate = NoGate
  /\ srv = Serving
  /\ InitEnv

\* A slot is free when no request occupies it or its response has been sent.
\* The slots are interchangeable: a new request takes the lowest free one.
Free(r) == pc[r] \in {"idle", "done"}
Lowest(r) == \A q \in Slots : q < r => ~Free(q)

Begin(r, op, id, search, body, first) ==
  /\ hist.started < MaxRequests
  /\ hist' = [hist EXCEPT !.started = @ + 1]
  /\ req' = [req EXCEPT ![r] = [op |-> op, id |-> id, search |-> search,
                                body |-> body,
                                seenCreated |-> hist.createDone,
                                seenDeleted |-> hist.deleteDone]]
  /\ pc' = [pc EXCEPT ![r] = first]
  /\ loc' = [loc EXCEPT ![r] = Nil]
  /\ resp' = [resp EXCEPT ![r] = NoResp]
  /\ UNCHANGED <<store, cache>>
  /\ UNCHANGED authVars

Reply(r, status, body) ==
  /\ pc' = [pc EXCEPT ![r] = "done"]
  /\ resp' = [resp EXCEPT ![r] = [status |-> status, body |-> body]]

Goto(r, next) ==
  /\ pc' = [pc EXCEPT ![r] = next]
  /\ UNCHANGED resp

\* Cache.Get(key, &book) followed by c.JSON(book): the cached JSON is decoded
\* into a Book and encoded again for the response.
Recode(j) == ToJSON(j.id, FromJSON(j))

\* Cache and Log are set by main before the server listens, so the handlers'
\* nil checks on them always pass.  A request reaches the steps below once
\* its :id has parsed as an unsigned integer and its body as a Book.

\* --------------------------------------------------------------- GetBooks
StartGetBooks(r) ==
  /\ Free(r) /\ Lowest(r)
  /\ \E search \in SearchTerms : Begin(r, "list", 0, search, NoBody, "list_cache")

\* Cache.Get(cacheKey, &books): a hit answers from the cache.
GetBooksCache(r) ==
  /\ pc[r] = "list_cache"
  /\ IF CacheHit(cache, ListKey(req[r].search))
       THEN Reply(r, 200, {Recode(j) : j \in CacheValue(cache, ListKey(req[r].search))})
       ELSE Goto(r, "list_db")
  /\ UNCHANGED <<store, cache, req, loc, hist>>
  /\ UNCHANGED authVars

\* books, err = SearchBooks(search) with a search term, GetAllBooks() without
GetBooksDB(r) ==
  /\ pc[r] = "list_db"
  /\ loc' = [loc EXCEPT ![r] =
              IF req[r].search # ""
                THEN SearchBooks(store, req[r].search)
                ELSE GetAllBooks(store)]
  /\ Goto(r, "list_set")
  /\ UNCHANGED <<store, cache, req, hist>>
  /\ UNCHANGED authVars

\* Cache.Set(cacheKey, books, 5*time.Minute); return c.JSON(books)
GetBooksSet(r) ==
  /\ pc[r] = "list_set"
  /\ cache' = CacheSet(cache, ListKey(req[r].search), loc[r])
  /\ Reply(r, 200, loc[r])
  /\ UNCHANGED <<store, req, loc, hist>>
  /\ UNCHANGED authVars

\* ---------------------------------------------------------------- GetBook
StartGetBook(r) ==
  /\ Free(r) /\ Lowest(r)
  /\ \E id \in BookIds : Begin(r, "get", id, "", NoBody, "get_cache")

GetBookCache(r) ==
  /\ pc[r] = "get_cache"
  /\ IF CacheHit(cache, KeyBook(req[r].id))
       THEN Reply(r, 200, Recode(CacheValue(cache, KeyBook(req[r].id))))
       ELSE Goto(r, "get_db")
  /\ UNCHANGED <<store, cache, req, loc, hist>>
  /\ UNCHANGED authVars

\* bookPtr, err := GetBookByID(uint(id)); any error answers 404.
GetBookDB(r) ==
  /\ pc[r] = "get_db"
  /\ LET found == GetBookByID(store, req[r].id) IN
       IF found = {}
         THEN /\ Reply(r, 404, "Book not found")
              /\ UNCHANGED loc
         ELSE /\ loc' = [loc EXCEPT ![r] = CHOOSE b \in found : TRUE]
              /\ Goto(r, "get_set")
  /\ UNCHANGED <<store, cache, req, hist>>
  /\ UNCHANGED authVars

\* Cache.Set(cacheKey, book, 10*time.Minute); return c.JSON(book)
GetBookSet(r) ==
  /\ pc[r] = "get_set"
  /\ cache' = CacheSet(cache, KeyBook(req[r].id), loc[r])
  /\ Reply(r, 200, loc[r])
  /\ UNCHANGED <<store, req, loc, hist>>
  /\ UNCHANGED authVars

\* --------------------------------------------------------- AddBookHandler
\* The body is parsed into a Book and handed to CreateBook as it is.
StartAddBook(r) ==
  /\ Free(r) /\ Lowest(r)
  /\ Len(store) + Cardinality({q \in Slots : pc[q] = "add_db"}) < MaxBooks
  /\ \E b \in BookInputs : Begin(r, "add", 0, "", b, "add_db")

\* CreateBook(&book): on error 500; on success book.ID is the new row's id.
AddBookDB(r) ==
  /\ pc[r] = "add_db"
  /\ IF CanCreate(store, req[r].body)
       THEN /\ store' = CreateBook(store, req[r].body)
            /\ loc' = [loc EXCEPT ![r] = ToJSON(Len(store'), store'[Len(store')])]
            /\ hist' = [hist EXCEPT !.createdAs[Len(store')] = req[r].body]
            /\ Goto(r, "add_del")
       ELSE /\ Reply(r, 500, "Failed to create book")
            /\ UNCHANGED <<store, loc, hist>>
  /\ UNCHANGED <<cache, req>>
  /\ UNCHANGED authVars

\* Variant of AddBookInvalidate: the handler answers without deleting
\* books:all.
AddBookInvalidate_KeepsList(r) ==
  /\ pc[r] = "add_del"
  /\ Reply(r, 201, loc[r])
  /\ hist' = [hist EXCEPT !.createDone = @ \cup {loc[r].id}]
  /\ UNCHANGED <<store, cache, req, loc>>
  /\ UNCHANGED authVars
\* Cache.Delete("books:all"); return c.Status(201).JSON(book)
AddBookInvalidate(r) ==
  /\ pc[r] = "add_del"
  /\ cache' = CacheDelete(cache, KeyAll)
  /\ Reply(r, 201, loc[r])
  /\ hist' = [hist EXCEPT !.createDone = @ \cup {loc[r].id}]
  /\ UNCHANGED <<store, req, loc>>
  /\ UNCHANGED authVars

\* ------------------------------------------------------ UpdateBookHandler
StartUpdateBook(r) ==
  /\ Free(r) /\ Lowest(r)
  /\ \E id \in BookIds, b \in BookInputs : Begin(r, "update", id, "", b, "upd_first")

\* UpdateBook, first statement: db.DB.First(&book, id).  An error (record not
\* found) is returned to the handler, which answers 404.
UpdateBookFirst(r) ==
  /\ pc[r] = "upd_first"
  /\ LET found == GetBookByID(store, req[r].id) IN
       IF found = {}
         THEN /\ Reply(r, 404, "Book not found")
              /\ UNCHANGED loc
         ELSE /\ loc' = [loc EXCEPT ![r] = CHOOSE b \in found : TRUE]
              /\ Goto(r, "upd_write")
  /\ UNCHANGED <<store, cache, req, hist>>
  /\ UNCHANGED authVars

\* UpdateBook, second statement: db.DB.Model(&book).Updates(updatedBook).  An
\* error answers 404; otherwise the fields written are also set on book, the
\* struct First loaded, which becomes the response body.
UpdateBookWrite(r) ==
  /\ pc[r] = "upd_write"
  /\ IF CanUpdate(store, req[r].id, req[r].body)
       THEN /\ store' = UpdateRow(store, req[r].id, req[r].body)
            /\ loc' = [loc EXCEPT ![r] =
                        ToJSON(req[r].id, ApplyUpdates(FromJSON(loc[r]), req[r].body))]
            /\ hist' = IF Live(store, req[r].id)
                         THEN [hist EXCEPT !.written = @ \cup {req[r].id}]
                         ELSE hist
            /\ Goto(r, "upd_del_all")
       ELSE /\ Reply(r, 404, "Book not found")
            /\ UNCHANGED <<store, loc, hist>>
  /\ UNCHANGED <<cache, req>>
  /\ UNCHANGED authVars

\* Cache.Delete("books:all")
UpdateBookInvalidateAll(r) ==
  /\ pc[r] = "upd_del_all"
  /\ cache' = CacheDelete(cache, KeyAll)
  /\ Goto(r, "upd_del_one")
  /\ UNCHANGED <<store, req, loc, hist>>
  /\ UNCHANGED authVars

\* Variant of UpdateBookInvalidateOne: the handler answers without deleting
\* the book's key.
UpdateBookInvalidateOne_KeepsEntry(r) ==
  /\ pc[r] = "upd_del_one"
  /\ Reply(r, 200, loc[r])
  /\ UNCHANGED <<store, cache, req, loc, hist>>
  /\ UNCHANGED authVars
\* Cache.Delete("book:<id>"); return c.JSON(updatedBook)
UpdateBookInvalidateOne(r) ==
  /\ pc[r] = "upd_del_one"
  /\ cache' = CacheDelete(cache, KeyBook(req[r].id))
  /\ Reply(r, 200, loc[r])
  /\ UNCHANGED <<store, req, loc, hist>>
  /\ UNCHANGED authVars

\* ------------------------------------------------------ DeleteBookHandler
StartDeleteBook(r) ==
  /\ Free(r) /\ Lowest(r)
  /\ \E id \in BookIds : Begin(r, "delete", id, "", NoBody, "del_db")

\* DeleteBook(uint(id)): the handler answers 404 only when the statement
\* returns an error, and a soft delete that matches no row returns none.
\* loc remembers whether a row was marked (RowsAffected > 0).
DeleteBookDB(r) ==
  /\ pc[r] = "del_db"
  /\ store' = DeleteBook(store, req[r].id)
  /\ loc' = [loc EXCEPT ![r] = Live(store, req[r].id)]
  /\ Goto(r, "del_del_all")
  /\ UNCHANGED <<cache, req, hist>>
  /\ UNCHANGED authVars

\* Cache.Delete("books:all")
DeleteBookInvalidateAll(r) ==
  /\ pc[r] = "del_del_all"
  /\ cache' = CacheDelete(cache, KeyAll)
  /\ Goto(r, "del_del_one")
  /\ UNCHANGED <<store, req, loc, hist>>
  /\ UNCHANGED authVars

\* Cache.Delete("book:<id>"); return c.SendStatus(204)
DeleteBookInvalidateOne(r) ==
  /\ pc[r] = "del_del_one"
  /\ cache' = CacheDelete(cache, KeyBook(req[r].id))
  /\ Reply(r, 204, Nil)
  /\ hist' = IF loc[r]
               THEN [hist EXCEPT !.deleteDone = @ \cup {req[r].id}]
               ELSE hist
  /\ UNCHANGED <<store, req, loc>>
  /\ UNCHANGED authVars

\* ------------------------------------------------------------------- auth
Usernames == {"alice", "bob"}
Emails == {"a@example.com", "b@example.com"}
Passwords == {"secret1", "secret2"}
\* bcrypt draws a fresh salt for every hash.
Salts == {1, 2}

ErrUserExists == "user already exists"
ErrInvalidCredentials == "invalid credentials"
\* The error the database driver reports for a unique-index violation.
ErrDuplicateKey == "duplicate key value violates unique constraint"

\* bcrypt.GenerateFromPassword: the hash carries its salt, and is not the
\* password.
GenerateFromPassword(password, salt) == <<"bcrypt", salt, password>>
\* bcrypt.CompareHashAndPassword: nil error exactly when the hash was made
\* from this password, whatever the salt.
CompareHashAndPassword(hash, password) ==
  \E salt \in Salts : hash = GenerateFromPassword(password, salt)

\* db.DB.Where("username = ? OR email = ?", username, email).First(...)
\* finds a row.
UserExists(us, username, email) ==
  \E i \in 1..Len(us) : us[i].username = username \/ us[i].email = email

\* Variant of CanCreateUser: the table has no unique index.
CanCreateUser_NoIndex(us, username, email) == TRUE

\* The unique indexes on users.username and users.email reject the INSERT.
CanCreateUser(us, username, email) ==
  \A i \in 1..Len(us) : us[i].username # username /\ us[i].email # email

\* Variant of NewUser: the first username to register is made an admin.
NewUser_AliceIsAdmin(username, hash, email) ==
  [username |-> username, password |-> hash, email |-> email,
   role |-> IF username = "alice" THEN "admin" ELSE "user"]
\* user := User{Username, Password: string(hashedPassword), Email,
\* Role: "user"}
NewUser(username, hash, email) ==
  [username |-> username, password |-> hash, email |-> email, role |-> "user"]

AFree(r) == apc[r] \in {"idle", "done"}
ALowest(r) == \A q \in Slots : q < r => ~AFree(q)

\* POST /auth/register: Register parses the body and calls RegisterUser.
StartRegister(r) ==
  /\ AFree(r) /\ ALowest(r)
  /\ Len(users) + Cardinality({q \in Slots : ~AFree(q)}) < MaxUsers
  /\ \E u \in Usernames, p \in Passwords, e \in Emails :
       areq' = [areq EXCEPT ![r] = [username |-> u, password |-> p, email |-> e]]
  /\ apc' = [apc EXCEPT ![r] = "reg_check"]
  /\ aresp' = [aresp EXCEPT ![r] = [err |-> Nil, status |-> 0]]
  /\ UNCHANGED <<users, loginLog>>
  /\ UNCHANGED bookVars

\* RegisterUser, the existence query: a row found returns ErrUserExists, and
\* Register answers 400 with the error's text.
RegisterCheck(r) ==
  /\ apc[r] = "reg_check"
  /\ IF UserExists(users, areq[r].username, areq[r].email)
       THEN /\ apc' = [apc EXCEPT ![r] = "done"]
            /\ aresp' = [aresp EXCEPT ![r] = [err |-> ErrUserExists, status |-> 400]]
            /\ areq' = [areq EXCEPT ![r] = NoRegister]
       ELSE /\ apc' = [apc EXCEPT ![r] = "reg_create"]
            /\ UNCHANGED <<aresp, areq>>
  /\ UNCHANGED <<users, loginLog>>
  /\ UNCHANGED bookVars

\* RegisterUser, hashing and db.DB.Create(&user): the error of the INSERT is
\* returned as it is.
RegisterCreate(r) ==
  /\ apc[r] = "reg_create"
  /\ IF CanCreateUser(users, areq[r].username, areq[r].email)
       THEN /\ \E salt \in Salts :
                 users' = Append(users,
                            NewUser(areq[r].username,
                                    GenerateFromPassword(areq[r].password, salt),
                                    areq[r].email))
            /\ aresp' = [aresp EXCEPT ![r] = [err |-> Nil, status |-> 201]]
       ELSE /\ aresp' = [aresp EXCEPT ![r] = [err |-> ErrDuplicateKey, status |-> 400]]
            /\ UNCHANGED users
  /\ apc' = [apc EXCEPT ![r] = "done"]
  /\ areq' = [areq EXCEPT ![r] = NoRegister]
  /\ UNCHANGED loginLog
  /\ UNCHANGED bookVars

\* Variant of AuthenticateUser: a missing user gets an error of its own.
AuthenticateUser_NamesMissingUser(us, username, password) ==
  LET found == {i \in 1..Len(us) : us[i].username = username} IN
    IF found = {}
      THEN [err |-> "user not found", user |-> 0]
      ELSE LET i == CHOOSE j \in found : TRUE IN
             IF ~CompareHashAndPassword(us[i].password, password)
               THEN [err |-> ErrInvalidCredentials, user |-> 0]
               ELSE [err |-> Nil, user |-> i]

\* AuthenticateUser: the row with this username, then the hash comparison.
\* The result is the error and the index of the user (0 with an error).
AuthenticateUser(us, username, password) ==
  LET found == {i \in 1..Len(us) : us[i].username = username} IN
    IF found = {}
      THEN [err |-> ErrInvalidCredentials, user |-> 0]
      ELSE LET i == CHOOSE j \in found : TRUE IN
             IF ~CompareHashAndPassword(us[i].password, password)
               THEN [err |-> ErrInvalidCredentials, user |-> 0]
               ELSE [err |-> Nil, user |-> i]

\* GenerateJWT: a token signed with the secret, not expired, with the
\* claims sub, username and role of the user row.
GenerateJWT(user, id) ==
  Bearer(TRUE, FALSE, [sub |-> id, username |-> user.username, role |-> user.role])

\* Login: 401 with a fixed body on any error of AuthenticateUser, otherwise
\* 200 with the token and the user's id, username, email and role.
LoginResponse(us, username, password) ==
  LET a == AuthenticateUser(us, username, password) IN
    IF a.err # Nil
      THEN [err |-> a.err, status |-> 401,
            body |-> [error |-> "Invalid credentials"]]
      ELSE [err |-> Nil, status |-> 200,
            body |-> [token |-> GenerateJWT(us[a.user], a.user),
                      user |-> [id |-> a.user,
                                username |-> us[a.user].username,
                                email |-> us[a.user].email,
                                role |-> us[a.user].role]]]

\* The kind of a Login request, by the table's content.
LoginKind(us, username, password) ==
  IF \A i \in 1..Len(us) : us[i].username # username THEN "no_user"
  ELSE IF \E i \in 1..Len(us) :
            us[i].username = username /\ us[i].password[3] # password
         THEN "wrong_password"
         ELSE "ok"

\* POST /auth/login
Login ==
  /\ \E u \in Usernames, p \in Passwords :
       loginLog' = [loginLog EXCEPT ![LoginKind(users, u, p)] =
                      {LoginResponse(users, u, p)}]
  /\ UNCHANGED <<users, apc, areq, aresp>>
  /\ UNCHANGED bookVars

NextAuth ==
  /\ \/ \E r \in Slots : StartRegister(r) \/ RegisterCheck(r) \/ RegisterCreate(r)
     \/ Login
  /\ UNCHANGED sysVars

SpecAuth == Init /\ [][NextAuth]_vars

\* ------------------------------------------------------------------- spec
\* The public routes GET /books and GET /books/:id.
ReadStarts(r) == StartGetBooks(r) \/ StartGetBook(r)

\* The routes of the protected group, entered with a valid bearer token.
WriteStarts(r) == StartAddBook(r) \/ StartUpdateBook(r) \/ StartDeleteBook(r)

\* The database statements of the handlers.
StoreSteps(r) ==
  \/ GetBooksDB(r) \/ GetBookDB(r) \/ AddBookDB(r)
  \/ UpdateBookFirst(r) \/ UpdateBookWrite(r) \/ DeleteBookDB(r)

\* The cache commands of the handlers, each succeeding.
CacheSteps(r) ==
  \/ GetBooksCache(r) \/ GetBooksSet(r) \/ GetBookCache(r) \/ GetBookSet(r)
  \/ AddBookInvalidate(r)
  \/ UpdateBookInvalidateAll(r) \/ UpdateBookInvalidateOne(r)
  \/ DeleteBookInvalidateAll(r) \/ DeleteBookInvalidateOne(r)

Next ==
  /\ \E r \in Slots :
       ReadStarts(r) \/ WriteStarts(r) \/ StoreSteps(r) \/ CacheSteps(r)
  /\ UNCHANGED sysVars

Spec == Init /\ [][Next]_vars

\* ----------------------------------------------------------------- claims
Returned(r, op) == pc[r] = "done" /\ req[r].op = op

\* C1: a list with no search term that starts after a create has returned
\* includes the created book (as long as the book is live), in every
\* interleaving of GetBooks and AddBookHandler.
C1_ListAfterCreateIncludesBook ==
  \A r \in Slots :
    (Returned(r, "list") /\ req[r].search = "" /\ resp[r].status = 200) =>
      \A id \in req[r].seenCreated :
        Live(store, id) => \E b \in resp[r].body : b.id = id

\* C2: a GetBook(id) that starts after DeleteBookHandler(id) has soft-deleted
\* the book and returned answers 404.
C2_GetAfterDeleteNotFound ==
  \A r \in Slots :
    (Returned(r, "get") /\ req[r].id \in req[r].seenDeleted) =>
      resp[r].status = 404

\* The step with which request r returns its response.
Returns(r, op) == pc[r] # "done" /\ pc'[r] = "done" /\ req[r].op = op

\* C3: a GetBook(id) issued after the create of id returned, answered while
\* the book is live and no update has written it, returns 200 with title,
\* author, year, genre and ISBN as supplied at creation.
C3_GetReturnsCreatedFields ==
  [][\A r \in Slots :
       (/\ Returns(r, "get")
        /\ req[r].id \in req[r].seenCreated
        /\ req[r].id \notin hist'.written
        /\ Live(store', req[r].id))
       => /\ resp'[r].status = 200
          /\ resp'[r].body.id = req[r].id
          /\ \A f \in Fields : resp'[r].body[f] = hist.createdAs[req[r].id][f]]_vars

C3_Witness ==
  \E r \in Slots :
    /\ Returned(r, "get") /\ resp[r].status = 200
    /\ req[r].id \in req[r].seenCreated
    /\ req[r].id \notin hist.written
    /\ resp[r].body.genre = "Fiction"

\* The step with which request r runs the UPDATE statement of UpdateBook.
WritesUpdate(r) == pc[r] = "upd_write" /\ pc'[r] # "upd_write"

Merged(old, new, p) ==
  \A f \in Fields : new[f] = IF p[f] # Zero(f) THEN p[f] ELSE old[f]

\* C4 as stated: UpdateBook(id, partial) on an existing book overwrites
\* exactly the fields that are non-zero in partial and changes nothing else.
C4_UpdateOverwritesNonZero ==
  [][\A r \in Slots :
       (WritesUpdate(r) /\ Live(store, req[r].id)) =>
         /\ Len(store') = Len(store)
         /\ Merged(store[req[r].id], store'[req[r].id], req[r].body)
         /\ store'[req[r].id].deleted = store[req[r].id].deleted
         /\ \A i \in 1..Len(store) : i # req[r].id => store'[i] = store[i]]_vars

\* C4 amended: the UPDATE of UpdateBook on a live book overwrites exactly the
\* fields that are non-zero in partial and changes nothing else, unless the
\* ISBN in partial is the ISBN of another row: then the update fails and no
\* row changes.
C4_UpdateFrame ==
  [][\A r \in Slots :
       (WritesUpdate(r) /\ Live(store, req[r].id)) =>
         IF req[r].body.isbn # "" /\ IsbnTaken(store, req[r].body.isbn, req[r].id)
           THEN store' = store /\ pc'[r] = "done" /\ resp'[r].status # 200
           ELSE /\ Len(store') = Len(store)
                /\ Merged(store[req[r].id], store'[req[r].id], req[r].body)
                /\ store'[req[r].id].deleted = store[req[r].id].deleted
                /\ \A i \in 1..Len(store) : i # req[r].id => store'[i] = store[i]]_vars

C4_Witness ==
  \E r \in Slots :
    /\ req[r].op = "update" /\ pc[r] = "upd_del_all"
    /\ req[r].body.title = "Updated" /\ req[r].body.author = ""
    /\ Live(store, req[r].id)
    /\ store[req[r].id].title = "Updated"
    /\ store[req[r].id].author = "Orwell"
    /\ store[req[r].id].genre = "Non-Fiction"

\* C5: no two user rows share a username and no two share an email.
C5_UsersUnique ==
  \A i, j \in 1..Len(users) :
    i # j => users[i].username # users[j].username /\ users[i].email # users[j].email

C5_Witness ==
  /\ Len(users) = 1
  /\ \E r \in Slots : apc[r] = "done" /\ aresp[r].err = ErrDuplicateKey

\* C6: a RegisterUser call that fails because the username or email is
\* taken returns ErrUserExists and no other error, also when two
\* registrations run concurrently.
C6_DuplicateRegisterGetsUserExists ==
  \A r \in Slots :
    (apc[r] = "done" /\ aresp[r].err # Nil) => aresp[r].err = ErrUserExists

\* C7: Login with a nonexistent username and Login with an existing
\* username and a wrong password give the identical outcome: error
\* ErrInvalidCredentials, status 401, the same body.
C7_NoUserEnumeration ==
  \A a \in loginLog["no_user"], b \in loginLog["wrong_password"] :
    /\ a = b
    /\ a.err = ErrInvalidCredentials
    /\ a.status = 401

C7_Witness ==
  /\ loginLog["no_user"] # {}
  /\ loginLog["wrong_password"] # {}

ValidDraft(b) == b.title # "" /\ b.author # "" /\ b.year # 0

\* C8: an AddBookHandler request with empty title or author or zero year is
\* rejected and persists nothing, so every stored book has non-empty title
\* and author and non-zero year.
C8_CreateValidatesRequired ==
  /\ \A r \in Slots :
       (Returned(r, "add") /\ ~ValidDraft(req[r].body)) => resp[r].status = 400
  /\ \A i \in 1..Len(store) : ValidDraft(store[i])

\* C9: DeleteBookHandler(id) for an id with no live book answers 404.
C9_DeleteMissingIs404 ==
  \A r \in Slots :
    (Returned(r, "delete") /\ ~loc[r]) => resp[r].status = 404

\* The step with which request r runs the lookup of UpdateBook.
LooksUp(r) == pc[r] = "upd_first" /\ pc'[r] # "upd_first"

\* C10: UpdateBookHandler(id, partial) for an id with no live book answers
\* 404, leaves every store row unchanged and deletes no cache key.
C10_UpdateMissingIs404 ==
  [][\A r \in Slots :
       (LooksUp(r) /\ ~Live(store, req[r].id)) =>
         /\ pc'[r] = "done"
         /\ resp'[r].status = 404
         /\ store' = store
         /\ cache' = cache]_vars

C10_Witness ==
  \E r \in Slots :
    /\ Returned(r, "update") /\ resp[r].status = 404
    /\ req[r].id \in req[r].seenDeleted


\* ---------------------------------------------------------------------
\* The statement of request r that is at label at completes in this step.
Runs(r, at) == pc[r] = at /\ pc'[r] # at

\* The store rejects the statement of request r with an error that is not
\* record-not-found: here, a violation of the unique index on isbn.
StoreFails(r) ==
  \/ pc[r] = "add_db" /\ ~CanCreate(store, req[r].body)
  \/ pc[r] = "upd_write" /\ ~CanUpdate(store, req[r].id, req[r].body)

\* C12: a book request whose store statement fails with an error other than
\* record-not-found is answered 500, and a book request is answered 404 only
\* when the book it addresses is absent from the store.
C12_StoreErrorIs500 ==
  [][\A r \in Slots :
       /\ (StoreFails(r) /\ pc'[r] # pc[r])
            => (pc'[r] = "done" /\ resp'[r].status = 500)
       /\ (pc[r] # "done" /\ pc'[r] = "done" /\ resp'[r].status = 404)
            => ~Live(store, req[r].id)]_vars

\* C16: an AddBookHandler request with title, author and year present and
\* no ISBN is never refused by the store: CreateBook inserts its row,
\* whatever rows without an ISBN the table already holds.
C16_IsbnOptional ==
  [][\A r \in Slots :
       (Runs(r, "add_db") /\ ValidDraft(req[r].body) /\ req[r].body.isbn = "")
         => (pc'[r] = "add_del" /\ store' = CreateBook(store, req[r].body))]_vars

WriteOps == {"add", "update", "delete"}

\* The keys GetBooks uses for a request with a non-empty search term.
SearchKeys == {KeySearch(t) : t \in SearchTerms \ {""}}

\* C17: no step of AddBookHandler, UpdateBookHandler or DeleteBookHandler
\* changes the entry of a books:search:<term> key.
C17_WritesKeepSearchEntries ==
  [][\A r \in Slots :
       (~Free(r) /\ req[r].op \in WriteOps /\ pc'[r] # pc[r])
         => \A k \in SearchKeys : cache'[k] = cache[k]]_vars

\* A search entry filled before a create is still served after the create
\* has answered 201, although the store now gives another result.
C17_Witness ==
  \E r \in Slots, t \in SearchTerms \ {""} :
    /\ Returned(r, "list") /\ req[r].search = t
    /\ req[r].seenCreated # {}
    /\ cache[KeySearch(t)] = {resp[r].body}
    /\ resp[r].body # SearchBooks(store, t)

\* C20: on a cache hit GetBooks and GetBook answer 200 with the cached value
\* at their Cache.Get, and that step reads no row of the store and writes no
\* cache entry: the request never reaches its store statement or Cache.Set.
C20_HitBypassesStore ==
  [][\A r \in Slots :
       /\ (Runs(r, "list_cache") /\ cache[ListKey(req[r].search)] # {})
            => /\ pc'[r] = "done"
               /\ resp'[r] = [status |-> 200,
                              body |-> CacheValue(cache, ListKey(req[r].search))]
               /\ UNCHANGED <<store, cache, loc>>
       /\ (Runs(r, "get_cache") /\ cache[KeyBook(req[r].id)] # {})
            => /\ pc'[r] = "done"
               /\ resp'[r] = [status |-> 200,
                              body |-> CacheValue(cache, KeyBook(req[r].id))]
               /\ UNCHANGED <<store, cache, loc>>]_vars

\* A hit has been served: a GetBooks that began after a create had answered,
\* with no row deleted since, returned the empty list, which only the entry
\* of books:all can have given it.
C20_Witness ==
  \E r \in Slots :
    /\ Returned(r, "list") /\ req[r].search = ""
    /\ req[r].seenCreated # {}
    /\ \A i \in 1..Len(store) : ~store[i].deleted
    /\ resp[r] = [status |-> 200, body |-> {}]

\* --------------------------------------------------------- cache failures
\* A cache command can fail: redis unreachable, a timeout, a value that does
\* not decode.  RedisCache.Get, Set and Delete then return an error and the
\* command has had no effect.  faulted[r] collects the labels at which a
\* command of request r failed.
Fault(r) ==
  /\ faulted' = [faulted EXCEPT ![r] = @ \cup {pc[r]}]
  /\ UNCHANGED <<gate, srv, envVars>>

\* Variant of OnGetError: the handler gives up when Cache.Get fails.
OnGetError_Fatal(r, next) == Reply(r, 500, "Cache unavailable")
\* err = Cache.Get(...); if err == nil { return }: any error, redis.Nil or
\* not, leaves the if and the handler goes on to the store.
OnGetError(r, next) == Goto(r, next)

\* Cache.Set(...) is called as a statement: its error is dropped.
OnSetError(r, status, body) == Reply(r, status, body)

\* Variant of OnDeleteError: the handler answers 500 when Cache.Delete fails.
OnDeleteError_Fatal(r, status, body) == Reply(r, 500, "Cache unavailable")
\* Cache.Delete(...) is called as a statement: its error is dropped and the
\* handler sends the response of the successful write.
OnDeleteError(r, status, body) == Reply(r, status, body)

GetBooksCacheFail(r) ==
  /\ pc[r] = "list_cache"
  /\ OnGetError(r, "list_db")
  /\ Fault(r)
  /\ UNCHANGED <<store, cache, req, loc, hist>>
  /\ UNCHANGED authVars

GetBooksSetFail(r) ==
  /\ pc[r] = "list_set"
  /\ OnSetError(r, 200, loc[r])
  /\ Fault(r)
  /\ UNCHANGED <<store, cache, req, loc, hist>>
  /\ UNCHANGED authVars

GetBookCacheFail(r) ==
  /\ pc[r] = "get_cache"
  /\ OnGetError(r, "get_db")
  /\ Fault(r)
  /\ UNCHANGED <<store, cache, req, loc, hist>>
  /\ UNCHANGED authVars

GetBookSetFail(r) ==
  /\ pc[r] = "get_set"
  /\ OnSetError(r, 200, loc[r])
  /\ Fault(r)
  /\ UNCHANGED <<store, cache, req, loc, hist>>
  /\ UNCHANGED authVars

AddBookInvalidateFail(r) ==
  /\ pc[r] = "add_del"
  /\ OnDeleteError(r, 201, loc[r])
  /\ hist' = [hist EXCEPT !.createDone = @ \cup {loc[r].id}]
  /\ Fault(r)
  /\ UNCHANGED <<store, cache, req, loc>>
  /\ UNCHANGED authVars

\* The error of Cache.Delete("books:all") is dropped; Cache.Delete of the
\* book's key is the next statement.
UpdateBookInvalidateAllFail(r) ==
  /\ pc[r] = "upd_del_all"
  /\ Goto(r, "upd_del_one")
  /\ Fault(r)
  /\ UNCHANGED <<store, cache, req, loc, hist>>
  /\ UNCHANGED authVars

UpdateBookInvalidateOneFail(r) ==
  /\ pc[r] = "upd_del_one"
  /\ OnDeleteError(r, 200, loc[r])
  /\ Fault(r)
  /\ UNCHANGED <<store, cache, req, loc, hist>>
  /\ UNCHANGED authVars

DeleteBookInvalidateAllFail(r) ==
  /\ pc[r] = "del_del_all"
  /\ Goto(r, "del_del_one")
  /\ Fault(r)
  /\ UNCHANGED <<store, cache, req, loc, hist>>
  /\ UNCHANGED authVars

DeleteBookInvalidateOneFail(r) ==
  /\ pc[r] = "del_del_one"
  /\ OnDeleteError(r, 204, Nil)
  /\ hist' = IF loc[r]
               THEN [hist EXCEPT !.deleteDone = @ \cup {req[r].id}]
               ELSE hist
  /\ Fault(r)
  /\ UNCHANGED <<store, cache, req, loc>>
  /\ UNCHANGED authVars

\* The cache commands of the handlers, each failing.
CacheFailures(r) ==
  \/ GetBooksCacheFail(r) \/ GetBooksSetFail(r)
  \/ GetBookCacheFail(r) \/ GetBookSetFail(r)
  \/ AddBookInvalidateFail(r)
  \/ UpdateBookInvalidateAllFail(r) \/ UpdateBookInvalidateOneFail(r)
  \/ DeleteBookInvalidateAllFail(r) \/ DeleteBookInvalidateOneFail(r)

\* A new request starts with no failed command.
Fresh(r) ==
  /\ faulted' = [faulted EXCEPT ![r] = {}]
  /\ UNCHANGED <<gate, srv, envVars>>

NextFaults ==
  \E r \in Slots :
    \/ (ReadStarts(r) \/ WriteStarts(r)) /\ Fresh(r)
    \/ (StoreSteps(r) \/ CacheSteps(r)) /\ UNCHANGED sysVars
    \/ CacheFailures(r)

SpecFaults == Init /\ [][NextFaults]_vars

\* What GetBooks and GetBook answer from the store alone, as with Cache nil.
NoCacheAnswer(r) ==
  IF req[r].op = "list"
    THEN [status |-> 200,
          body |-> IF req[r].search # ""
                     THEN SearchBooks(store, req[r].search)
                     ELSE GetAllBooks(store)]
    ELSE IF GetBookByID(store, req[r].id) = {}
      THEN [status |-> 404, body |-> "Book not found"]
      ELSE [status |-> 200,
            body |-> CHOOSE b \in GetBookByID(store, req[r].id) : TRUE]

ReadOps == {"list", "get"}

\* C11: a cache failure is never fatal to GetBooks or GetBook.  A failed Get
\* is a miss: the request goes on to the store and nothing else changes.  A
\* request that goes to the store is answered with what the store gives it,
\* status and body, whether its Set then succeeds or fails; a failed Set
\* leaves the cache as it was.
C11_CacheErrorsNotFatal ==
  [][\A r \in Slots :
       (~Free(r) /\ req[r].op \in ReadOps /\ pc'[r] # pc[r])
         => /\ (pc[r] \in {"list_cache", "get_cache"} /\ pc[r] \in faulted'[r])
                 => /\ pc'[r] = (IF req[r].op = "list" THEN "list_db" ELSE "get_db")
                    /\ UNCHANGED <<store, cache, resp, loc>>
            /\ pc[r] \in {"list_db", "get_db"}
                 => IF NoCacheAnswer(r).status = 200
                      THEN pc'[r] # "done" /\ loc'[r] = NoCacheAnswer(r).body
                      ELSE pc'[r] = "done" /\ resp'[r] = NoCacheAnswer(r)
            /\ pc[r] \in {"list_set", "get_set"}
                 => /\ pc'[r] = "done"
                    /\ resp'[r] = [status |-> 200, body |-> loc[r]]
                    /\ pc[r] \in faulted'[r] => cache' = cache]_vars

\* With the cache unreachable for both commands, a GetBooks and a GetBook of
\* a stored book have answered 200.
C11_Witness ==
  \E r, q \in Slots :
    /\ Returned(r, "list") /\ faulted[r] = {"list_cache", "list_set"}
    /\ resp[r].status = 200
    /\ Returned(q, "get") /\ faulted[q] = {"get_cache", "get_set"}
    /\ resp[q].status = 200

\* The status a write handler sends after its store statement succeeded.
SuccessStatus(op) ==
  IF op = "add" THEN 201 ELSE IF op = "update" THEN 200 ELSE 204

\* C18: once a Cache.Delete of a create, update or delete request has failed,
\* which is after its store statement succeeded, no step of the request
\* changes the store (no rollback, no second write), the failed command is
\* not tried again, and the request answers 201, 200 or 204.
C18_FailedInvalidationKeepsWrite ==
  [][\A r \in Slots :
       (~Free(r) /\ req[r].op \in WriteOps /\ pc'[r] # pc[r] /\ faulted'[r] # {})
         => /\ store' = store
            /\ pc'[r] \in {"upd_del_one", "del_del_one", "done"}
            /\ pc[r] \in faulted'[r] => cache' = cache
            /\ pc'[r] = "done" => resp'[r].status = SuccessStatus(req[r].op)]_vars

\* An update answered 200 after both of its Cache.Delete calls failed: the
\* row carries the update and book:<id> still holds the book as it was.
C18_Witness ==
  \E r \in Slots :
    /\ Returned(r, "update") /\ faulted[r] = {"upd_del_all", "upd_del_one"}
    /\ resp[r].status = 200
    /\ Live(store, req[r].id)
    /\ resp[r].body = ToJSON(req[r].id, store[req[r].id])
    /\ cache[KeyBook(req[r].id)] # {}
    /\ cache[KeyBook(req[r].id)] # {resp[r].body}

\* ------------------------------------------------------------- middleware
\* A middleware answers with a status, or calls c.Next().
CallNext == 0

\* JWTProtected: the bearer-token check of the protected group.  A request
\* with no Authorization header, a header that is not a bearer token, a
\* signature that does not verify or an expired token is answered 401.
JWTProtected(token) ==
  IF token.header = "bearer" /\ token.signed /\ ~token.expired
    THEN CallNext
    ELSE 401

\* Variant of RequireAdmin: a token without a role claim is let through.
RequireAdmin_AllowsMissingRole(token) ==
  IF "role" \in DOMAIN token.claims /\ token.claims.role # "admin"
    THEN 403
    ELSE CallNext
\* RequireAdmin: claims["role"] != "admin" answers 403 "Admin only"; a claim
\* that is missing reads as nil, which is not "admin".
RequireAdmin(token) ==
  IF "role" \in DOMAIN token.claims /\ token.claims.role = "admin"
    THEN CallNext
    ELSE 403

WriteRoutes == {"POST /books", "PUT /books/:id", "DELETE /books/:id"}
AdminRoutes == {"GET /admin/users", "GET /admin/stats"}

\* Variant of Chain: the book routes are registered on app, not on protected.
Chain_WritesPublic(route) ==
  IF route \in AdminRoutes THEN <<"JWTProtected", "RequireAdmin">> ELSE <<>>
\* The middleware in front of a route, in the order of registration:
\* protected := app.Group("/", JWTProtected()) carries the book writes, and
\* admin := protected.Group("/", RequireAdmin()) the admin routes.
Chain(route) ==
  IF route \in AdminRoutes THEN <<"JWTProtected", "RequireAdmin">>
  ELSE IF route \in WriteRoutes THEN <<"JWTProtected">>
  ELSE <<>>

\* The status the first refusing middleware of the chain answers, CallNext
\* when every middleware calls c.Next().
RECURSIVE RunChain(_, _)
RunChain(chain, token) ==
  IF chain = <<>> THEN CallNext
  ELSE LET status == IF Head(chain) = "JWTProtected"
                       THEN JWTProtected(token)
                       ELSE RequireAdmin(token)
       IN IF status # CallNext THEN status ELSE RunChain(Tail(chain), token)

\* What the chain of each route answers to each token.
ChainStatus ==
  [route \in WriteRoutes \cup AdminRoutes |->
     [token \in Tokens |-> RunChain(Chain(route), token)]]

\* A middleware answers the request: no handler runs.
Refuse(route, token) ==
  /\ ChainStatus[route][token] # CallNext
  /\ hist.started < MaxRequests
  /\ hist' = [hist EXCEPT !.started = @ + 1]
  /\ gate' = [route |-> route, token |-> token,
              status |-> ChainStatus[route][token], ran |-> "none",
              body |-> Nil]
  /\ UNCHANGED <<store, cache, pc, req, loc, resp, faulted, srv, envVars>>
  /\ UNCHANGED authVars

\* The handler registered for a book route starts in slot r.
StartHandler(route, r) ==
  \/ route = "POST /books" /\ StartAddBook(r)
  \/ route = "PUT /books/:id" /\ StartUpdateBook(r)
  \/ route = "DELETE /books/:id" /\ StartDeleteBook(r)

\* A request to a book route passes the chain and reaches its handler.
ServeWrite(route, token, r) ==
  /\ ChainStatus[route][token] = CallNext
  /\ StartHandler(route, r)
  /\ gate' = [route |-> route, token |-> token, status |-> CallNext,
              ran |-> route, body |-> Nil]
  /\ UNCHANGED <<faulted, srv, envVars>>

\* The empty string in a Password column, in the shape of a hash.
NoPassword == <<"", 0, "">>

\* Variant of BlankPasswords: the rows are sent as they were read.
BlankPasswords_Skipped(us) == us
\* for i := range users { users[i].Password = "" }
BlankPasswords(us) == [i \in 1..Len(us) |-> [us[i] EXCEPT !.password = NoPassword]]

\* GET /admin/users: every user, with Password blanked, and their number.
AdminUsers(token) ==
  /\ ChainStatus["GET /admin/users"][token] = CallNext
  /\ hist.started < MaxRequests
  /\ hist' = [hist EXCEPT !.started = @ + 1]
  /\ gate' = [route |-> "GET /admin/users", token |-> token, status |-> 200,
              ran |-> "GET /admin/users",
              body |-> [users |-> BlankPasswords(users),
                        total |-> Len(users)]]
  /\ UNCHANGED <<store, cache, pc, req, loc, resp, faulted, srv, envVars>>
  /\ UNCHANGED authVars

\* GET /admin/stats: the number of books not soft-deleted and of users.
AdminStats(token) ==
  /\ ChainStatus["GET /admin/stats"][token] = CallNext
  /\ hist.started < MaxRequests
  /\ hist' = [hist EXCEPT !.started = @ + 1]
  /\ gate' = [route |-> "GET /admin/stats", token |-> token, status |-> 200,
              ran |-> "GET /admin/stats",
              body |-> [books_total |-> Cardinality(GetAllBooks(store)),
                        users_total |-> Len(users)]]
  /\ UNCHANGED <<store, cache, pc, req, loc, resp, faulted, srv, envVars>>
  /\ UNCHANGED authVars

\* The statements of the write handlers after their start.
WriteSteps(r) ==
  \/ AddBookDB(r) \/ AddBookInvalidate(r)
  \/ UpdateBookFirst(r) \/ UpdateBookWrite(r)
  \/ UpdateBookInvalidateAll(r) \/ UpdateBookInvalidateOne(r)
  \/ DeleteBookDB(r)
  \/ DeleteBookInvalidateAll(r) \/ DeleteBookInvalidateOne(r)

NextHttp ==
  \/ \E route \in WriteRoutes \cup AdminRoutes, token \in Tokens :
       Refuse(route, token)
  \/ \E route \in WriteRoutes, token \in Tokens, r \in Slots :
       ServeWrite(route, token, r)
  \/ \E token \in Tokens : AdminUsers(token) \/ AdminStats(token)
  \/ /\ \E r \in Slots :
          \/ StartGetBook(r) \/ GetBookCache(r) \/ GetBookDB(r) \/ GetBookSet(r)
          \/ WriteSteps(r)
     /\ UNCHANGED sysVars

SpecHttp == Init /\ [][NextHttp]_vars

\* A request to a route behind the middleware arrives in this step: gate'
\* describes it.  It is answered by a middleware or by an admin handler (no
\* slot moves), or it starts a write handler.
Arrives ==
  /\ hist'.started # hist.started
  /\ \/ pc' = pc
     \/ \E r \in Slots : pc'[r] # pc[r] /\ req'[r].op \in WriteOps

\* The request carries a bearer token that verifies and has not expired.
ValidBearer(token) == token.header = "bearer" /\ token.signed /\ ~token.expired

\* C13: a POST /books, PUT /books/:id or DELETE /books/:id request without a
\* valid bearer token is answered 401 and no book handler runs for it: the
\* store, the cache and every request slot are as before.
C13_WritesNeedToken ==
  [][(Arrives /\ gate'.route \in WriteRoutes /\ ~ValidBearer(gate'.token))
       => /\ gate'.status = 401
          /\ gate'.ran = "none"
          /\ UNCHANGED <<store, cache, pc, req, loc, resp>>]_vars

\* A write carrying an admin token with a forged signature has been answered
\* 401 while the store holds a book and the cache an entry for it.
C13_Witness ==
  /\ gate.route \in WriteRoutes
  /\ gate.token.header = "bearer" /\ ~gate.token.signed
  /\ gate.status = 401
  /\ Live(store, 1)
  /\ cache[KeyBook(1)] # {}

\* C14: on /admin/users and /admin/stats a request with a valid token whose
\* role claim is not "admin", or is missing, is answered 403 and the admin
\* handler does not run; with role "admin" the handler runs and answers.
C14_AdminOnly ==
  [][(Arrives /\ gate'.route \in AdminRoutes /\ ValidBearer(gate'.token))
       => IF "role" \in DOMAIN gate'.token.claims
               /\ gate'.token.claims.role = "admin"
            THEN gate'.ran = gate'.route /\ gate'.status = 200
            ELSE /\ gate'.status = 403
                 /\ gate'.ran = "none"
                 /\ gate'.body = Nil
                 /\ UNCHANGED <<store, cache, pc, req, loc, resp>>]_vars

\* A valid token without a role claim has been answered 403 on an admin
\* route.
C14_Witness ==
  /\ gate.route \in AdminRoutes
  /\ ValidBearer(gate.token)
  /\ "role" \notin DOMAIN gate.token.claims
  /\ gate.status = 403
  /\ gate.ran = "none"

\* --------------------------------------------------------------- shutdown
\* main after the routes are registered: app.Listen runs in a goroutine and
\* main blocks on the signal channel.  phase is where main stands.

\* <-c: SIGINT or SIGTERM arrives.
Signal ==
  /\ srv.phase = "serving"
  /\ srv' = [srv EXCEPT !.phase = "signalled"]
  /\ UNCHANGED <<bookVars, authVars, faulted, gate, envVars>>

\* RedisCache.Close(): the first thing main does after the signal.
CloseCache ==
  /\ srv.phase = "signalled" /\ srv.cacheOpen
  /\ srv' = [srv EXCEPT !.cacheOpen = FALSE]
  /\ UNCHANGED <<bookVars, authVars, faulted, gate, envVars>>

\* app.ShutdownWithContext(ctx) is called: the listener closes, no new
\* request is accepted, and main waits for the requests in flight.
ShutdownWithContext ==
  /\ srv.phase = "signalled" /\ ~srv.cacheOpen
  /\ srv' = [srv EXCEPT !.phase = "draining"]
  /\ UNCHANGED <<bookVars, authVars, faulted, gate, envVars>>

\* ShutdownWithContext returns nil: every request in flight has answered.
Drained ==
  /\ srv.phase = "draining"
  /\ \A r \in Slots : Free(r)
  /\ srv' = [srv EXCEPT !.phase = "exited"]
  /\ UNCHANGED <<bookVars, authVars, faulted, gate, envVars>>

\* ShutdownWithContext returns the context's error: the bounded wait of ctx
\* is over with requests still in flight, and main returns.
DrainTimeout ==
  /\ srv.phase = "draining"
  /\ \E r \in Slots : ~Free(r)
  /\ srv' = [srv EXCEPT !.phase = "exited"]
  /\ UNCHANGED <<bookVars, authVars, faulted, gate, envVars>>

\* The server accepts requests until ShutdownWithContext is called, and its
\* handlers run until main returns.  A command on a closed Redis client
\* returns an error.
NextShutdown ==
  \/ Signal \/ CloseCache \/ ShutdownWithContext \/ Drained \/ DrainTimeout
  \/ \E r \in Slots :
       \/ /\ srv.phase \in {"serving", "signalled"}
          /\ ReadStarts(r) \/ WriteStarts(r)
          /\ Fresh(r)
       \/ /\ srv.phase # "exited"
          /\ StoreSteps(r)
          /\ UNCHANGED sysVars
       \/ /\ srv.phase # "exited" /\ srv.cacheOpen
          /\ CacheSteps(r)
          /\ UNCHANGED sysVars
       \/ /\ srv.phase # "exited" /\ ~srv.cacheOpen
          /\ CacheFailures(r)

SpecShutdown == Init /\ [][NextShutdown]_vars

\* The labels at which a handler issues a cache command.
CacheLabels ==
  {"list_cache", "list_set", "get_cache", "get_set", "add_del",
   "upd_del_all", "upd_del_one", "del_del_all", "del_del_one"}

\* C15: the cache connection is closed only after the requests in flight have
\* drained: a request served while main waits in ShutdownWithContext issues
\* its cache commands on an open connection.
C15_CacheClosedAfterDrain ==
  [][\A r \in Slots :
       (srv.phase = "draining" /\ pc[r] \in CacheLabels /\ pc'[r] # pc[r])
         => srv.cacheOpen]_vars

\* ------------------------------------------------------ one at a time
\* The handlers with no two requests overlapping: a request is accepted
\* when no other is in flight, and every cache command succeeds.
NextSeq ==
  /\ \E r \in Slots :
       \/ /\ \A q \in Slots : Free(q)
          /\ ReadStarts(r) \/ WriteStarts(r)
       \/ StoreSteps(r)
       \/ CacheSteps(r)
  /\ UNCHANGED sysVars

SpecSeq == Init /\ [][NextSeq]_vars

\* The labels at which a write handler issues Cache.Delete.
DeleteLabels ==
  {"add_del", "upd_del_all", "upd_del_one", "del_del_all", "del_del_one"}

\* The store carries the write of request r, which stands at a Cache.Delete.
WriteDone(r) ==
  IF req[r].op = "add"
    THEN Live(store, loc[r].id) /\ ToJSON(loc[r].id, store[loc[r].id]) = loc[r]
    ELSE IF req[r].op = "update"
      THEN Live(store, req[r].id) /\ ToJSON(req[r].id, store[req[r].id]) = loc[r]
      ELSE ~Live(store, req[r].id)

\* C19: a write handler changes the cache only by its Cache.Delete calls,
\* which it issues with its write in the store and its response not yet
\* sent; with no request overlapping and no cache failure, a create that
\* answers 201 leaves books:all absent, and an update or delete that answers
\* 200 or 204 leaves books:all and book:<id> absent, when it answers.
C19_WriteInvalidateOrder ==
  [][\A r \in Slots :
       (~Free(r) /\ req[r].op \in WriteOps /\ pc'[r] # pc[r])
         => /\ cache' # cache => pc[r] \in DeleteLabels
            /\ pc[r] \in DeleteLabels => WriteDone(r) /\ resp[r] = NoResp
            /\ (pc'[r] = "done" /\ resp'[r].status = SuccessStatus(req[r].op))
                 => /\ cache'[KeyAll] = {}
                    /\ req[r].op # "add" => cache'[KeyBook(req[r].id)] = {}]_vars

\* An update has written its row and is about to invalidate: books:all and
\* the book's key both hold an entry.
C19_Witness ==
  \E r \in Slots :
    /\ pc[r] = "upd_del_all"
    /\ WriteDone(r)
    /\ cache[KeyAll] # {}
    /\ cache[KeyBook(req[r].id)] # {}

\* ----------------------------------------------------------------- search
\* Tables the handlers can have produced: rows created from the request
\* bodies, live or soft-deleted, no two with the same isbn.
SearchStores ==
  {s \in UNION {[1..n -> {[NewRow(b) EXCEPT !.deleted = d] :
                            b \in BookInputs, d \in BOOLEAN}] : n \in 0..MaxBooks} :
     \A i, j \in 1..Len(s) : i # j => s[i].isbn # s[j].isbn}

\* One GET /books request, with any search value, against any such table
\* and an empty cache.
InitSearch ==
  /\ store \in SearchStores
  /\ cache = [k \in CacheKeys |-> {}]
  /\ \E search \in SearchQueries :
       req = [r \in Slots |->
                IF r = 1 THEN [NoReq EXCEPT !.op = "list", !.search = search]
                         ELSE NoReq]
  /\ pc = [r \in Slots |-> IF r = 1 THEN "list_cache" ELSE "idle"]
  /\ loc = [r \in Slots |-> Nil]
  /\ resp = [r \in Slots |-> NoResp]
  /\ hist = [InitHist EXCEPT !.started = 1]
  /\ users = <<>>
  /\ apc = [r \in Slots |-> "idle"]
  /\ areq = [r \in Slots |-> NoRegister]
  /\ aresp = [r \in Slots |-> [err |-> Nil, status |-> 0]]
  /\ loginLog = [k \in LoginKinds |-> {}]
  /\ faulted = [r \in Slots |-> {}]
  /\ gate = NoGate
  /\ srv = Serving
  /\ InitEnv

NextSearch ==
  /\ \E r \in Slots : GetBooksCache(r) \/ GetBooksDB(r) \/ GetBooksSet(r)
  /\ UNCHANGED sysVars

SpecSearch == InitSearch /\ [][NextSearch]_vars

\* The term occurs in the text, letter case apart.
Contains(text, term) ==
  LET c == Chars(text)
      q == Chars(term)
  IN \E k \in 0..(Len(c) - Len(q)) :
       \A i \in 1..Len(q) : Lower(c[k + i]) = Lower(q[i])

\* C23: on a cache miss GetBooks with a search term reads exactly the live
\* books whose title or author contains the term, letter case apart, and
\* without a term exactly the live books.
C23_SearchIsContainment ==
  [][\A r \in Slots :
       Runs(r, "list_db")
         => loc'[r] =
              {ToJSON(i, store[i]) : i \in {j \in 1..Len(store) :
                 /\ ~store[j].deleted
                 /\ \/ req[r].search = ""
                    \/ Contains(store[j].title, req[r].search)
                    \/ Contains(store[j].author, req[r].search)}}]_vars

\* C22: every user row RegisterUser creates has role "user", and every token
\* Login issues carries the role claim "user": no register and login
\* requests make an admin or an admin token.
C22_RegisterMakesUsers ==
  /\ \A i \in 1..Len(users) : users[i].role = "user"
  /\ \A k \in LoginKinds : \A l \in loginLog[k] :
       l.status = 200
         => /\ l.body.token.claims.role = "user"
            /\ l.body.user.role = "user"
            /\ RequireAdmin(l.body.token) = 403

\* Both usernames are registered and a login has been answered with a token.
C22_Witness ==
  /\ Len(users) = MaxUsers
  /\ \E l \in loginLog["ok"] : l.status = 200 /\ ValidBearer(l.body.token)

\* ------------------------------------------------------------ admin users
\* Register and login requests, and GET /admin/users requests with any
\* token.
NextAdmin ==
  \/ /\ \/ \E r \in Slots : StartRegister(r) \/ RegisterCheck(r) \/ RegisterCreate(r)
        \/ Login
     /\ UNCHANGED sysVars
  \/ \E token \in Tokens : AdminUsers(token)
  \/ \E token \in Tokens : Refuse("GET /admin/users", token)

SpecAdmin == Init /\ [][NextAdmin]_vars

\* The body Register sends: a fixed message, or the text of the error.
RegisterBody(a) ==
  IF a.err = Nil THEN [message |-> "User created successfully"]
                 ELSE [error |-> a.err]

\* C28: every user in a GET /admin/users response has an empty password, and
\* no Register or Login response carries a password: their bodies have no
\* such field, in the user map or in the token's claims, and the error text
\* of a failed Register is not a hash.
C28_NoPasswordLeak ==
  /\ (gate.route = "GET /admin/users" /\ gate.status = 200)
       => \A i \in DOMAIN gate.body.users :
            gate.body.users[i].password = NoPassword
  /\ \A k \in LoginKinds : \A l \in loginLog[k] :
       /\ "password" \notin DOMAIN l.body
       /\ l.status = 200
            => /\ "password" \notin DOMAIN l.body.user
               /\ "password" \notin DOMAIN l.body.token.claims
  /\ \A r \in Slots :
       apc[r] = "done"
         => /\ "password" \notin DOMAIN RegisterBody(aresp[r])
            /\ aresp[r].err \in {Nil, ErrUserExists, ErrDuplicateKey}

\* GET /admin/users has listed every registered user, and a login has been
\* answered with a token.
C28_Witness ==
  /\ gate.route = "GET /admin/users" /\ gate.status = 200
  /\ Len(users) = MaxUsers
  /\ gate.body.total = MaxUsers
  /\ \E l \in loginLog["ok"] : l.status = 200

\* A write handler stands between its store statement and its last
\* Cache.Delete.
Invalidating == \E r \in Slots : pc[r] \in DeleteLabels

RawIds ==
  { <<"1">>, <<"2">>, <<"a", "b", "c">>, <<"-", "1">>, <<"1", "x">>,
    <<"4", "2", "9", "4", "9", "6", "7", "2", "9", "6">> }

Digits == {"0", "1", "2", "3", "4", "5", "6", "7", "8", "9"}
DigitValue(ch) ==
  CASE ch = "0" -> 0 [] ch = "1" -> 1 [] ch = "2" -> 2 [] ch = "3" -> 3
    [] ch = "4" -> 4 [] ch = "5" -> 5 [] ch = "6" -> 6 [] ch = "7" -> 7
    [] ch = "8" -> 8 [] ch = "9" -> 9

\* The largest value of bitSize 32, without its last digit, and that digit.
MaxUint32Div10 == 429496729
MaxUint32Mod10 == 5

\* The digits of str read from the left onto acc: {} on a character that is
\* no digit or on a value that does not fit 32 bits.
RECURSIVE ParseDigits(_, _)
ParseDigits(str, acc) ==
  IF str = <<>> THEN {acc}
  ELSE IF Head(str) \notin Digits THEN {}
  ELSE IF acc > MaxUint32Div10
          \/ (acc = MaxUint32Div10 /\ DigitValue(Head(str)) > MaxUint32Mod10)
    THEN {}
  ELSE ParseDigits(Tail(str), acc * 10 + DigitValue(Head(str)))

\* Variant of ParseUint: the leading digits are read and the rest is dropped.
ParseUint_LeadingDigits(str) ==
  IF str = <<>> \/ Head(str) \notin Digits THEN {}
  ELSE LET n == CHOOSE k \in 1..Len(str) :
                  /\ \A i \in 1..k : str[i] \in Digits
                  /\ k = Len(str) \/ str[k + 1] \notin Digits
       IN ParseDigits(SubSeq(str, 1, n), 0)
\* strconv.ParseUint(idStr, 10, 32): {} for an error, {value} otherwise.  No
\* sign, no empty string, digits only, at most 32 bits.
ParseUint(str) == IF str = <<>> THEN {} ELSE ParseDigits(str, 0)

\* The request body as sent: its Content-Type, whether its text is JSON of
\* an object with fields of the types of Book, and the Book it then decodes
\* to.
RawBodies ==
  {[contentType |-> "application/json", decodes |-> TRUE, book |-> b] :
     b \in BookInputs}
  \cup {[contentType |-> "application/json", decodes |-> FALSE, book |-> NoBody],
        [contentType |-> "text/plain", decodes |-> TRUE, book |-> NoBody]}
NoRaw == [contentType |-> "", decodes |-> FALSE, book |-> NoBody]

\* c.BodyParser(&book): {} for an error, {book} otherwise.
BodyParser(raw) ==
  IF raw.contentType = "application/json" /\ raw.decodes THEN {raw.book} ELSE {}

\* What the handlers get from the two parsers, for each input.
ParsedId == [idStr \in RawIds |-> ParseUint(idStr)]
ParsedBody == [raw \in RawBodies |-> BodyParser(raw)]

\* return c.Status(400).JSON(...) before any store or cache call.
BadRequest(r, op, message) ==
  /\ hist.started < MaxRequests
  /\ hist' = [hist EXCEPT !.started = @ + 1]
  /\ req' = [req EXCEPT ![r] = [NoReq EXCEPT !.op = op]]
  /\ pc' = [pc EXCEPT ![r] = "done"]
  /\ loc' = [loc EXCEPT ![r] = Nil]
  /\ resp' = [resp EXCEPT ![r] = [status |-> 400, body |-> message]]
  /\ UNCHANGED <<store, cache>>
  /\ UNCHANGED authVars

\* Log.LogError(err, {"operation": ..., "error": "invalid_request_body"})
LogBadBody(operation) ==
  logs' = logs \cup {[level |-> "ERROR", message |-> "Error occurred",
                      operation |-> operation]}

\* The table has room for the row of one more create in flight.
RoomForBook ==
  Len(store) + Cardinality({q \in Slots : pc[q] = "add_db"}) < MaxBooks

\* GET /books/:id as received.
ReceiveGetBook(r, idStr) ==
  /\ Free(r) /\ Lowest(r)
  /\ LET id == ParsedId[idStr] IN
       /\ calc' = [fn |-> "GetBook", arg |-> [id |-> idStr, body |-> NoRaw],
                   out |-> id]
       /\ IF id = {}
            THEN BadRequest(r, "get", "Invalid book ID")
            ELSE \E i \in id \cap BookIds : Begin(r, "get", i, "", NoBody, "get_cache")
  /\ UNCHANGED <<faulted, gate, srv, ttl, logs, metrics>>

\* POST /books as received.
ReceiveAddBook(r, raw) ==
  /\ Free(r) /\ Lowest(r)
  /\ LET book == ParsedBody[raw] IN
       /\ calc' = [fn |-> "AddBookHandler", arg |-> [id |-> <<>>, body |-> raw],
                   out |-> book]
       /\ IF book = {}
            THEN BadRequest(r, "add", "Invalid request body") /\ LogBadBody("add_book")
            ELSE /\ RoomForBook
                 /\ \E b \in book : Begin(r, "add", 0, "", b, "add_db")
                 /\ UNCHANGED logs
  /\ UNCHANGED <<faulted, gate, srv, ttl, metrics>>

\* PUT /books/:id as received: the id is parsed first, then the body.
ReceiveUpdateBook(r, idStr, raw) ==
  /\ Free(r) /\ Lowest(r)
  /\ LET id == ParsedId[idStr]
         book == ParsedBody[raw]
     IN
       /\ calc' = [fn |-> "UpdateBookHandler",
                   arg |-> [id |-> idStr, body |-> raw], out |-> id]
       /\ IF id = {}
            THEN BadRequest(r, "update", "Invalid book ID") /\ UNCHANGED logs
            ELSE IF book = {}
              THEN /\ BadRequest(r, "update", "Invalid request body")
                   /\ LogBadBody("update_book")
              ELSE /\ \E i \in id \cap BookIds, b \in book :
                        Begin(r, "update", i, "", b, "upd_first")
                   /\ UNCHANGED logs
  /\ UNCHANGED <<faulted, gate, srv, ttl, metrics>>

\* DELETE /books/:id as received.
ReceiveDeleteBook(r, idStr) ==
  /\ Free(r) /\ Lowest(r)
  /\ LET id == ParsedId[idStr] IN
       /\ calc' = [fn |-> "DeleteBookHandler",
                   arg |-> [id |-> idStr, body |-> NoRaw], out |-> id]
       /\ IF id = {}
            THEN BadRequest(r, "delete", "Invalid book ID")
            ELSE \E i \in id \cap BookIds : Begin(r, "delete", i, "", NoBody, "del_db")
  /\ UNCHANGED <<faulted, gate, srv, ttl, logs, metrics>>

NextInput ==
  \E r \in Slots :
    \/ \E idStr \in RawIds : ReceiveGetBook(r, idStr)
    \/ \E raw \in RawBodies : ReceiveAddBook(r, raw)
    \/ \E idStr \in RawIds, raw \in RawBodies : ReceiveUpdateBook(r, idStr, raw)
    \/ \E idStr \in RawIds : ReceiveDeleteBook(r, idStr)
    \/ /\ \/ GetBookCache(r) \/ GetBookDB(r) \/ GetBookSet(r)
          \/ WriteSteps(r)
       /\ UNCHANGED sysVars

SpecInput == Init /\ [][NextInput]_vars

\* The characters are a non-empty run of decimal digits.
IsUnsignedInteger(str) == str # <<>> /\ \A i \in 1..Len(str) : str[i] \in Digits

\* The request received in this step has an :id that is no unsigned
\* integer, on a route that has one, or a body that does not parse, on a
\* route that takes one.
MalformedInput ==
  /\ hist'.started # hist.started
  /\ \/ /\ calc'.fn \in {"GetBook", "UpdateBookHandler", "DeleteBookHandler"}
        /\ ~IsUnsignedInteger(calc'.arg.id)
     \/ /\ calc'.fn \in {"AddBookHandler", "UpdateBookHandler"}
        /\ ~(calc'.arg.body.contentType = "application/json"
               /\ calc'.arg.body.decodes)

\* C24: a request with a malformed :id or an unparsable body is answered 400
\* in the step that receives it: its handler makes no store or cache call, and
\* the store and the cache are unchanged.
C24_MalformedInputIs400 ==
  [][MalformedInput
       => /\ \E r \in Slots :
               /\ Free(r)
               /\ pc' = [pc EXCEPT ![r] = "done"]
               /\ resp'[r].status = 400
          /\ UNCHANGED <<store, cache>>]_vars

\* A PUT with a good id and a body that does not parse has been answered 400
\* while the store holds the book and the cache an entry for it.
C24_Witness ==
  \E r \in Slots :
    /\ Returned(r, "update") /\ resp[r].status = 400
    /\ calc.fn = "UpdateBookHandler"
    /\ calc.arg.id = <<"1">>
    /\ ~calc.arg.body.decodes
    /\ Live(store, 1)
    /\ cache[KeyBook(1)] # {}

\* --------------------------------------------------- functions on their own
\* The server with no request made, before a function is called on an
\* argument of its own.
InitQuiet ==
  /\ store = <<>>
  /\ cache = [k \in CacheKeys |-> {}]
  /\ pc = [r \in Slots |-> "idle"]
  /\ req = [r \in Slots |-> NoReq]
  /\ loc = [r \in Slots |-> Nil]
  /\ resp = [r \in Slots |-> NoResp]
  /\ hist = InitHist
  /\ users = <<>>
  /\ apc = [r \in Slots |-> "idle"]
  /\ areq = [r \in Slots |-> NoRegister]
  /\ aresp = [r \in Slots |-> [err |-> Nil, status |-> 0]]
  /\ loginLog = [k \in LoginKinds |-> {}]
  /\ faulted = [r \in Slots |-> {}]
  /\ gate = NoGate
  /\ srv = Serving
  /\ ttl = NoTTL
  /\ logs = {}
  /\ metrics = NoMetrics

\* ----------------------------------------------------------- ErrorHandler
\* The errors a handler or the framework returns: a *fiber.Error with its
\* code, an error of another type, and an error of another type that wraps
\* a *fiber.Error.
FiberCodes == {400, 401, 403, 404, 405, 408, 413, 415, 422, 426, 429, 431,
               500, 501, 502, 503, 504}
HandlerErrors ==
  {[type |-> "*fiber.Error", code |-> code, text |-> "fiber error"] :
     code \in FiberCodes}
  \cup {[type |-> "*errors.errorString", code |-> 0, text |-> t] :
          t \in {"assert.AnError general error for testing", "EOF"}}
  \cup {[type |-> "*fmt.wrapError", code |-> code, text |-> "wrapped"] :
          code \in {404}}
Methods == {"GET", "POST", "DELETE"}
Paths == {"/books", "/nowhere"}

StatusInternalServerError == 500

\* Variant of ErrorHandler: every error is answered 500.
ErrorHandler_Always500(c, err) ==
  [status |-> StatusInternalServerError,
   body |-> [error |-> err.text],
   log |-> [level |-> "ERROR", message |-> "Error occurred",
            method |-> c.method, path |-> c.path,
            status |-> StatusInternalServerError]]
\* fiber.Config.ErrorHandler: code 500, unless err.(*fiber.Error) succeeds,
\* then e.Code; the error is logged and answered with code.  The type
\* assertion does not look into wrapped errors.
ErrorHandler(c, err) ==
  LET code == IF err.type = "*fiber.Error" THEN err.code
                                           ELSE StatusInternalServerError
  IN [status |-> code,
      body |-> [error |-> err.text],
      log |-> [level |-> "ERROR", message |-> "Error occurred",
               method |-> c.method, path |-> c.path, status |-> code]]

InitError ==
  /\ InitQuiet
  /\ \E err \in HandlerErrors, method \in Methods, path \in Paths :
       calc = [fn |-> "ErrorHandler",
               arg |-> [c |-> [method |-> method, path |-> path], err |-> err],
               out |-> {}]

\* A handler has returned the error: the framework calls ErrorHandler.
CallErrorHandler ==
  /\ calc.fn = "ErrorHandler" /\ calc.out = {}
  /\ LET answer == ErrorHandler(calc.arg.c, calc.arg.err) IN
       /\ calc' = [calc EXCEPT !.out = {[status |-> answer.status,
                                         body |-> answer.body]}]
       /\ logs' = logs \cup {answer.log}
  /\ UNCHANGED <<bookVars, authVars, faulted, gate, srv, ttl, metrics>>

NextError == CallErrorHandler

SpecError == InitError /\ [][NextError]_vars

\* C25: the error handler answers a *fiber.Error with the code of the error
\* and any other error with 500.
C25_ErrorHandlerStatus ==
  (calc.fn = "ErrorHandler")
    => \A answer \in calc.out :
         answer.status = IF calc.arg.err.type = "*fiber.Error"
                           THEN calc.arg.err.code
                           ELSE 500

\* A *fiber.Error with code 404 has been answered 404.
C25_Witness ==
  /\ calc.fn = "ErrorHandler"
  /\ calc.arg.err.type = "*fiber.Error" /\ calc.arg.err.code = 404
  /\ \E answer \in calc.out : answer.status = 404

\* ------------------------------------------------------------ Canonicalize
\* A raw URL is the sequence of its characters.
SchemeLetters == {"h", "t", "p"}
RawPaths == {<<>>, <<"/">>, <<"/", "b">>, <<"/", "b", "/">>,
             <<"/", "b", "/", "/">>, <<"/", "/">>,
             <<"/", "b", "/", "c", "/">>, <<"/", "b", "/", "/", "/">>}
RawQueryParts == {<<>>, <<"?">>, <<"?", "q">>}
RawFragments == {<<>>, <<"#", "f">>}
RawURLs ==
  {<<"h", "t", "t", "p", ":", "/", "/">> \o host \o path \o query \o fragment :
     host \in {<<"a">>}, path \in RawPaths, query \in RawQueryParts,
     fragment \in RawFragments}
  \cup {<<":", "a">>, <<"/", "b", "/", "/">>}

\* The position of the first ch in str from position i on, 0 when there is
\* none.
RECURSIVE IndexFrom(_, _, _)
IndexFrom(str, ch, i) ==
  IF i > Len(str) THEN 0
  ELSE IF str[i] = ch THEN i
  ELSE IndexFrom(str, ch, i + 1)

HasPrefix(str, prefix) ==
  /\ Len(str) >= Len(prefix)
  /\ SubSeq(str, 1, Len(prefix)) = prefix

\* strings.TrimSuffix: str without ONE trailing suffix, str itself when it
\* does not end in suffix.
TrimSuffix(str, suffix) ==
  IF /\ Len(str) >= Len(suffix)
     /\ SubSeq(str, Len(str) - Len(suffix) + 1, Len(str)) = suffix
    THEN SubSeq(str, 1, Len(str) - Len(suffix))
    ELSE str

\* url.getScheme: the letters before the first ':', none when another
\* character comes first, an error when the ':' comes first.
RECURSIVE GetScheme(_, _)
GetScheme(str, i) ==
  IF i > Len(str) THEN [scheme |-> <<>>, rest |-> str, err |-> Nil]
  ELSE IF str[i] \in SchemeLetters THEN GetScheme(str, i + 1)
  ELSE IF str[i] = ":"
    THEN IF i = 1
           THEN [scheme |-> <<>>, rest |-> <<>>,
                 err |-> "missing protocol scheme"]
           ELSE [scheme |-> SubSeq(str, 1, i - 1),
                 rest |-> SubSeq(str, i + 1, Len(str)), err |-> Nil]
  ELSE [scheme |-> <<>>, rest |-> str, err |-> Nil]

\* url.Parse: the fragment is cut at the first '#', the scheme is read, the
\* query is cut at the first '?' (a bare trailing '?' sets ForceQuery), an
\* authority follows a leading "//" up to the next '/', the rest is the path.
UrlParse(raw) ==
  LET hashAt == IndexFrom(raw, "#", 1)
      u == IF hashAt = 0 THEN raw ELSE SubSeq(raw, 1, hashAt - 1)
      frag == IF hashAt = 0 THEN <<>> ELSE SubSeq(raw, hashAt + 1, Len(raw))
      sch == GetScheme(u, 1)
      qAt == IndexFrom(sch.rest, "?", 1)
      force == qAt # 0 /\ qAt = Len(sch.rest)
      rest == IF qAt = 0 THEN sch.rest ELSE SubSeq(sch.rest, 1, qAt - 1)
      query == IF qAt = 0 THEN <<>>
               ELSE SubSeq(sch.rest, qAt + 1, Len(sch.rest))
      authority == /\ HasPrefix(rest, <<"/", "/">>)
                   /\ sch.scheme # <<>> \/ ~HasPrefix(rest, <<"/", "/", "/">>)
      after == IF authority THEN SubSeq(rest, 3, Len(rest)) ELSE rest
      slashAt == IndexFrom(after, "/", 1)
      host == IF ~authority THEN <<>>
              ELSE IF slashAt = 0 THEN after
              ELSE SubSeq(after, 1, slashAt - 1)
      path == IF ~authority THEN rest
              ELSE IF slashAt = 0 THEN <<>>
              ELSE SubSeq(after, slashAt, Len(after))
  IN [Scheme |-> sch.scheme, Host |-> host, Path |-> path,
      ForceQuery |-> force, RawQuery |-> query, Fragment |-> frag,
      err |-> sch.err]

\* (*URL).String: scheme ':' , "//" host when there is a scheme or a host and
\* a host or a path, the path, '?' query, '#' fragment.
UrlString(u) ==
  (IF u.Scheme # <<>> THEN u.Scheme \o <<":">> ELSE <<>>)
  \o (IF /\ u.Scheme # <<>> \/ u.Host # <<>>
         /\ u.Host # <<>> \/ u.Path # <<>>
        THEN <<"/", "/">> \o u.Host ELSE <<>>)
  \o (IF u.Path # <<>> /\ u.Path[1] # "/" /\ u.Host # <<>>
        THEN <<"/">> ELSE <<>>)
  \o u.Path
  \o (IF u.ForceQuery \/ u.RawQuery # <<>>
        THEN <<"?">> \o u.RawQuery ELSE <<>>)
  \o (IF u.Fragment # <<>> THEN <<"#">> \o u.Fragment ELSE <<>>)

\* Canonicalize: the parsed URL without query and fragment and with one
\* trailing '/' of the path removed, written back as a string.
Canonicalize(raw) ==
  LET parsed == UrlParse(raw) IN
    IF parsed.err # Nil THEN [url |-> <<>>, err |-> parsed.err]
    ELSE [url |-> UrlString([parsed EXCEPT
                    !.RawQuery = <<>>,
                    !.Fragment = <<>>,
                    !.Path = TrimSuffix(parsed.Path, <<"/">>)]),
          err |-> Nil]

\* The result of Canonicalize for each raw URL.
Canonical == [raw \in RawURLs |-> Canonicalize(raw)]

InitURL ==
  /\ InitQuiet
  /\ \E raw \in RawURLs :
       calc = [fn |-> "Canonicalize", arg |-> raw, out |-> {}]

\* CleanURL(raw, "canonical"): Canonicalize is called on the raw URL.
CallCanonicalize ==
  /\ calc.fn = "Canonicalize" /\ calc.out = {}
  /\ calc' = [calc EXCEPT !.out = {Canonical[calc.arg]}]
  /\ UNCHANGED <<bookVars, authVars, faulted, gate, srv, ttl, logs, metrics>>

\* The caller passes an accepted result to Canonicalize once more.
CallCanonicalizeAgain ==
  /\ calc.fn = "Canonicalize"
  /\ \E first \in calc.out :
       /\ first.err = Nil
       /\ calc' = [calc EXCEPT !.out = {Canonicalize(first.url)}]
  /\ UNCHANGED <<bookVars, authVars, faulted, gate, srv, ttl, logs, metrics>>

NextURL == CallCanonicalize \/ CallCanonicalizeAgain

SpecURL == InitURL /\ [][NextURL]_vars

\* C29: Canonicalize applied to a result of Canonicalize returns that result.
C29_CanonicalizeIdempotent ==
  [][(calc.fn = "Canonicalize" /\ calc.out # {}) => calc'.out = calc.out]_vars

\* ------------------------------------------------------------------ logger
\* LogLevel: DEBUG, INFO, WARN, ERROR, FATAL in the order of the iota.
LogLevels == [DEBUG |-> 0, INFO |-> 1, WARN |-> 2, ERROR |-> 3, FATAL |-> 4]

\* The values of LOG_LEVEL: unset, the five names, and another word.
EnvLevels == {"", "DEBUG", "INFO", "WARN", "ERROR", "FATAL", "verbose"}

\* NewLogger: level INFO unless LOG_LEVEL names one of the five levels.
NewLogger(envLevel) ==
  IF envLevel \in DOMAIN LogLevels THEN LogLevels[envLevel]
                                   ELSE LogLevels["INFO"]

\* The level of the logger main has built and handed to the book package.
LoggerLevel == CHOOSE level \in calc.out : TRUE

\* logWithLevel: an entry below the logger's level is dropped, any other is
\* written.
LogWithLevel(level, message, operation, id) ==
  logs' = IF LogLevels[level] < LoggerLevel
            THEN logs
            ELSE logs \cup {[level |-> level, message |-> message,
                             operation |-> operation, book_id |-> id]}

\* main: AppLogger = logger.NewLogger(); book.Log = AppLogger.
InitLog ==
  /\ InitQuiet
  /\ \E envLevel \in EnvLevels :
       calc = [fn |-> "NewLogger", arg |-> envLevel,
               out |-> {NewLogger(envLevel)}]

\* GetBook with its log calls: Log.LogCache on a hit, Log.LogError on every
\* error of GetBookByID, Log.LogDatabase after Cache.Set.
LogGetBookCache(r) ==
  /\ GetBookCache(r)
  /\ IF CacheHit(cache, KeyBook(req[r].id))
       THEN LogWithLevel("DEBUG", "Cache Operation", "get", req[r].id)
       ELSE UNCHANGED logs
  /\ UNCHANGED <<faulted, gate, srv, ttl, metrics, calc>>

LogGetBookDB(r) ==
  /\ GetBookDB(r)
  /\ IF GetBookByID(store, req[r].id) = {}
       THEN LogWithLevel("ERROR", "Error occurred", "get_book", req[r].id)
       ELSE UNCHANGED logs
  /\ UNCHANGED <<faulted, gate, srv, ttl, metrics, calc>>

LogGetBookSet(r) ==
  /\ GetBookSet(r)
  /\ LogWithLevel("DEBUG", "Database Operation", "select", req[r].id)
  /\ UNCHANGED <<faulted, gate, srv, ttl, metrics, calc>>

NextLog ==
  \E r \in Slots :
    \/ /\ StartGetBook(r) \/ StartAddBook(r) \/ StartDeleteBook(r)
          \/ AddBookDB(r) \/ AddBookInvalidate(r)
          \/ DeleteBookDB(r)
          \/ DeleteBookInvalidateAll(r) \/ DeleteBookInvalidateOne(r)
       /\ UNCHANGED sysVars
    \/ LogGetBookCache(r) \/ LogGetBookDB(r) \/ LogGetBookSet(r)

SpecLog == InitLog /\ [][NextLog]_vars

\* C26: a GetBook answered 404 has left no ERROR entry in the log.
C26_NotFoundWithoutErrorLog ==
  \A r \in Slots :
    (pc[r] = "done" /\ req[r].op = "get" /\ resp[r].status = 404)
      => ~\E entry \in logs :
            /\ entry.level = "ERROR"
            /\ entry.operation = "get_book"
            /\ entry.book_id = req[r].id

\* ------------------------------------------------------ RecordCacheOperation
\* The counters are plain int64 package variables: cacheHits++ is a load and
\* a store of its own, and handlers of concurrent requests run the function
\* at the same time.
CacheStatuses == {"hit", "miss"}

\* The calls of RecordCacheOperation begun so far.
CallsBegun ==
  metrics.hitCalls + metrics.missCalls
    + Cardinality({r \in Slots : metrics.at[r] # "idle"})

\* A handler calls RecordCacheOperation("get", status).
RecordCacheOperation(r, status) ==
  /\ metrics.at[r] = "idle"
  /\ \A q \in Slots : q < r => metrics.at[q] # "idle"
  /\ CallsBegun < MaxRequests
  /\ metrics' = [metrics EXCEPT !.at[r] = "load", !.status[r] = status]

\* cacheHits++ or cacheMisses++, first half: the counter is loaded.
CounterLoad(r) ==
  /\ metrics.at[r] = "load"
  /\ metrics' = [metrics EXCEPT
                   !.tmp[r] = IF metrics.status[r] = "hit"
                                THEN metrics.cacheHits
                                ELSE metrics.cacheMisses,
                   !.at[r] = "store"]

\* cacheHits++ or cacheMisses++, second half: the loaded value plus one is
\* stored.
CounterStore(r) ==
  /\ metrics.at[r] = "store"
  /\ metrics' = IF metrics.status[r] = "hit"
                  THEN [metrics EXCEPT !.cacheHits = metrics.tmp[r] + 1,
                                       !.at[r] = "hits"]
                  ELSE [metrics EXCEPT !.cacheMisses = metrics.tmp[r] + 1,
                                       !.at[r] = "hits"]

\* total := cacheHits + cacheMisses: the two counters are read one after the
\* other.
ReadHits(r) ==
  /\ metrics.at[r] = "hits"
  /\ metrics' = [metrics EXCEPT !.hits[r] = metrics.cacheHits,
                                !.at[r] = "misses"]

ReadMisses(r) ==
  /\ metrics.at[r] = "misses"
  /\ metrics' = [metrics EXCEPT !.tmp[r] = metrics.hits[r] + metrics.cacheMisses,
                                !.at[r] = "ratio"]

\* if total > 0 { cacheHitRatio.Set(float64(cacheHits) / float64(total)) }:
\* cacheHits is read once more; the call returns.
SetRatio(r) ==
  /\ metrics.at[r] = "ratio"
  /\ metrics' = [metrics EXCEPT
                   !.ratio = IF metrics.tmp[r] > 0
                               THEN <<metrics.cacheHits, metrics.tmp[r]>>
                               ELSE @,
                   !.hitCalls = IF metrics.status[r] = "hit" THEN @ + 1 ELSE @,
                   !.missCalls = IF metrics.status[r] = "miss" THEN @ + 1 ELSE @,
                   !.at[r] = "idle",
                   !.status[r] = "none",
                   !.tmp[r] = 0,
                   !.hits[r] = 0]

NextMetrics ==
  /\ \E r \in Slots :
       \/ \E status \in CacheStatuses : RecordCacheOperation(r, status)
       \/ CounterLoad(r) \/ CounterStore(r)
       \/ ReadHits(r) \/ ReadMisses(r) \/ SetRatio(r)
  /\ UNCHANGED <<bookVars, authVars, faulted, gate, srv, ttl, logs, calc>>

SpecMetrics == Init /\ [][NextMetrics]_vars

\* C30: with no call of RecordCacheOperation in progress, cacheHits is the
\* number of completed hit calls, cacheMisses the number of completed miss
\* calls, and the gauge holds cacheHits / (cacheHits + cacheMisses).
C30_CountersLoseNoUpdate ==
  (\A r \in Slots : metrics.at[r] = "idle")
    => /\ metrics.cacheHits = metrics.hitCalls
       /\ metrics.cacheMisses = metrics.missCalls
       /\ metrics.ratio = <<metrics.cacheHits,
                            metrics.cacheHits + metrics.cacheMisses>>

\* -------------------------------------------------------------- expiration
\* The expirations the handlers pass to Cache.Set, in minutes.
TTLList == 5
TTLBook == 10
MaxClock == 12

\* 5*time.Minute for the keys of GetBooks, 10*time.Minute for book:<id>.
Expiration(k) == IF k[1] = "book" THEN TTLBook ELSE TTLList

\* Variant of ExpireAt: the key is stored with no expiration.
ExpireAt_Never(now, expiration) == MaxClock + 1
\* client.Set(ctx, key, value, expiration): the key lives until expiration
\* has passed.
ExpireAt(now, expiration) == now + expiration

\* The key no longer holds a value: its times are forgotten.
Forget(t, k) ==
  [t EXCEPT !.setAt[k] = 0, !.expiry[k] = 0, !.dataAt[k] = 0]

\* A minute passes; Redis no longer returns the keys whose expiration has
\* passed.
Tick ==
  /\ ttl.now < MaxClock
  /\ LET expired == {k \in CacheKeys : cache[k] # {} /\ ttl.expiry[k] <= ttl.now + 1}
     IN /\ cache' = [k \in CacheKeys |-> IF k \in expired THEN {} ELSE cache[k]]
        /\ ttl' = [ttl EXCEPT
                     !.now = @ + 1,
                     !.setAt = [k \in CacheKeys |-> IF k \in expired THEN 0 ELSE @[k]],
                     !.expiry = [k \in CacheKeys |-> IF k \in expired THEN 0 ELSE @[k]],
                     !.dataAt = [k \in CacheKeys |-> IF k \in expired THEN 0 ELSE @[k]]]
  /\ UNCHANGED <<store, pc, req, loc, resp, hist>>
  /\ UNCHANGED <<authVars, faulted, gate, srv, logs, metrics, calc>>

\* The key of the read request in slot r.
ReadKey(r) == IF req[r].op = "get" THEN KeyBook(req[r].id)
                                   ELSE ListKey(req[r].search)

\* A read request arrives, with no other request being served.
TimedStart(r) ==
  /\ \A q \in Slots : Free(q)
  /\ Lowest(r)
  /\ \/ \E search \in SearchTerms :
          Begin(r, "list", 0, search, NoBody, "list_cache")
     \/ \E id \in BookIds : Begin(r, "get", id, "", NoBody, "get_cache")
  /\ ttl' = [ttl EXCEPT !.served[r] = NotServed, !.readAt[r] = 0]
  /\ UNCHANGED <<faulted, gate, srv, logs, metrics, calc>>

\* Cache.Get: on a hit the response is the value of the key, of the age the
\* key has.
TimedCacheGet(r) ==
  /\ GetBooksCache(r) \/ GetBookCache(r)
  /\ ttl' = IF CacheHit(cache, ReadKey(r))
              THEN [ttl EXCEPT !.served[r] =
                      [cached |-> TRUE,
                       sinceSet |-> ttl.now - ttl.setAt[ReadKey(r)],
                       dataAge |-> ttl.now - ttl.dataAt[ReadKey(r)],
                       delay |-> ttl.setAt[ReadKey(r)] - ttl.dataAt[ReadKey(r)]]]
              ELSE ttl
  /\ UNCHANGED <<faulted, gate, srv, logs, metrics, calc>>

\* GetAllBooks or GetBookByID: the table is read now.
TimedStoreRead(r) ==
  /\ GetBooksDB(r) \/ GetBookDB(r)
  /\ ttl' = [ttl EXCEPT !.readAt[r] = IF pc'[r] = "done" THEN 0 ELSE ttl.now]
  /\ UNCHANGED <<faulted, gate, srv, logs, metrics, calc>>

\* Cache.Set(cacheKey, value, expiration): the key holds what the request
\* read from the table and expires after expiration.
TimedCacheSet(r) ==
  /\ GetBooksSet(r) \/ GetBookSet(r)
  /\ ttl' = [ttl EXCEPT
               !.setAt[ReadKey(r)] = ttl.now,
               !.expiry[ReadKey(r)] = ExpireAt(ttl.now, Expiration(ReadKey(r))),
               !.dataAt[ReadKey(r)] = ttl.readAt[r],
               !.readAt[r] = 0]
  /\ UNCHANGED <<faulted, gate, srv, logs, metrics, calc>>

\* AddBookHandler: the row is created and books:all deleted.
TimedAddBook(r) ==
  /\ \/ /\ \A q \in Slots : Free(q)
        /\ StartAddBook(r)
        /\ ttl' = [ttl EXCEPT !.served[r] = NotServed]
     \/ AddBookDB(r) /\ UNCHANGED ttl
     \/ AddBookInvalidate(r) /\ ttl' = Forget(ttl, KeyAll)
  /\ UNCHANGED <<faulted, gate, srv, logs, metrics, calc>>

NextTTL ==
  \/ Tick
  \/ \E r \in Slots :
       \/ TimedStart(r) \/ TimedCacheGet(r) \/ TimedStoreRead(r)
       \/ TimedCacheSet(r) \/ TimedAddBook(r)

SpecTTL == Init /\ [][NextTTL]_vars

\* The response of request r came from the cache and is not what the table
\* holds now.
ServedStale(r) ==
  /\ pc[r] = "done" /\ ttl.served[r].cached
  /\ req[r].op = "list"
  /\ Cardinality(resp[r].body) < Cardinality(SearchBooks(store, req[r].search))

====
